---------------------------- MODULE Spec2Model ----------------------------
(***************************************************************************)
(* Model of the vcf-proof-mvp programs: the two arithmetic circuits, the   *)
(* chromosome demo (compile, setup, witness, prove, verify), the eye       *)
(* colour demo and the command line front end with its proof registry.     *)
(*                                                                         *)
(* Text that the code only compares for equality is a TLA+ string.  Text   *)
(* that the code takes apart (chromosome labels, proof type identifiers)   *)
(* is a sequence of one-character strings, so that TrimPrefix, Atoi and    *)
(* ToLower are computed character by character as the library does.        *)
(*                                                                         *)
(* Circuit values are Go ints turned into elements of the BN254 scalar     *)
(* field.  Every value of the model is far smaller than the field modulus, *)
(* so sums, differences and products of the model never wrap and the       *)
(* field's zero test is the integers' zero test.                           *)
(***************************************************************************)
EXTENDS Integers, Sequences, FiniteSets, TLC

VARIABLES
    prog,               \* which program of the repository is running
    pc,                 \* position of the running program
    exitCode,           \* Running while the process lives, then its exit code
    stdout,             \* lines printed so far
    calls,              \* calls made so far into the backend and the proof types
    vcf,                \* the VCF file the program reads
    chromosomes,        \* main: result of extractChromosomeNumbers
    paddedChromosomes,  \* main: the five private slots
    genotype,           \* eye colour main: result of extractEyeColorGenotype
    claimedColor,       \* eye colour main: genotypeToColor(genotype)
    keys,               \* pk, vk of groth16.Setup
    witness,            \* the assignment handed to frontend.NewWitness
    publicWitness,      \* w.Public()
    proof,              \* result of groth16.Prove
    satisfied,          \* circuit solver: result of Define on the assignment
    args,               \* command line of the CLI
    dirs,               \* directories the CLI has created
    proofObj,           \* CLI: the value returned by createProof
    ps,                 \* part_003: the fields of the ProofSystem
    disk,               \* the files on disk: name -> content
    pq,                 \* part_003: the ProofQuery of NewProofQuery
    result,             \* part_003: query and result of the last ExecuteQuery
    before,             \* the fields of the ProofSystem when the last method was called
    procs,              \* the processes that run SaveToFiles at the same time
    rdr,                \* main.go: the number of variants rdr.Read() has returned
    dumpCount           \* main.go: count, the counter of the dump loop

vars == <<prog, pc, exitCode, stdout, calls, vcf, chromosomes, paddedChromosomes,
          genotype, claimedColor, keys, witness, publicWitness, proof, satisfied,
          args, dirs, proofObj, ps, disk, pq, result, before, procs, rdr, dumpCount>>

\* The variables of the key store and of the queries
storeVars == <<disk, pq, result, before, procs>>

\* The variables of the variant dump of main.go
dumpVars == <<rdr, dumpCount>>

-----------------------------------------------------------------------------
(* Bounds of the model                                                     *)

MaxValue == 3
MaxRecords == 6
MaxEyeRecords == 2

-----------------------------------------------------------------------------
(* Values shared by the programs                                           *)

\* exitCode of a process that has not exited; an int variable not yet assigned
Running == 0 - 1
Unset == 0 - 1

\* A record variable not yet assigned
None == [none |-> TRUE]

\* The nil error
Nil == "nil"

Range(s) == {s[i] : i \in 1..Len(s)}

SeqsUpTo(S, n) == UNION {[1..k -> S] : k \in 0..n}

-----------------------------------------------------------------------------
(* The circuits                                                            *)

\* ChromosomeCircuit.Define: the product of the five differences is asserted
\* to be zero.  The sum of squares is computed and dropped.
ChromosomeCircuit_Define_OneSlotLost(c) ==
    LET diff1 == c.Chromosome1 - c.TargetChromosome
        diff2 == c.Chromosome2 - c.TargetChromosome
        diff3 == c.Chromosome3 - c.TargetChromosome
        diff4 == c.Chromosome4 - c.TargetChromosome
        product == diff1 * diff2 * diff3 * diff4
    IN  product = 0

ChromosomeCircuit_Define(c) ==
    LET diff1 == c.Chromosome1 - c.TargetChromosome
        diff2 == c.Chromosome2 - c.TargetChromosome
        diff3 == c.Chromosome3 - c.TargetChromosome
        diff4 == c.Chromosome4 - c.TargetChromosome
        diff5 == c.Chromosome5 - c.TargetChromosome
        product == diff1 * diff2 * diff3 * diff4 * diff5
    IN  product = 0

\* EyeColorCircuit.Define: ClaimedColor is asserted equal to Genotype*1 + 1.
EyeColorCircuit_Define_Doubled(c) ==
    LET expectedColor == (c.Genotype * 2) + 1
    IN  c.ClaimedColor = expectedColor

EyeColorCircuit_Define(c) ==
    LET expectedColor == (c.Genotype * 1) + 1
    IN  c.ClaimedColor = expectedColor

\* genotypeToColor: the mapping kept outside the circuit.
genotypeToColor(g) ==
    CASE g = 0 -> 1
      [] g = 1 -> 2
      [] g = 2 -> 3
      [] OTHER -> 0

\* CubicCircuit.Define: Y is asserted equal to X*X*X + X + 5.
CubicCircuit_Define(c) ==
    LET x3 == c.X * c.X * c.X
    IN  c.Y = x3 + c.X + 5

\* The constraint system of the circuit of an assignment.
Define(c) ==
    CASE c.circuit = "ChromosomeCircuit" -> ChromosomeCircuit_Define(c)
      [] c.circuit = "EyeColorCircuit" -> EyeColorCircuit_Define(c)
      [] c.circuit = "CubicCircuit" -> CubicCircuit_Define(c)


-----------------------------------------------------------------------------
(* Text helpers of the Go library, on sequences of characters              *)

Digits == <<"0", "1", "2", "3", "4", "5", "6", "7", "8", "9">>

IsDigit(ch) == \E i \in 1..Len(Digits) : Digits[i] = ch

DigitVal(ch) == (CHOOSE i \in 1..Len(Digits) : Digits[i] = ch) - 1

\* strings.TrimPrefix(s, prefix)
TrimPrefix(s, prefix) ==
    IF Len(s) >= Len(prefix) /\ SubSeq(s, 1, Len(prefix)) = prefix
    THEN SubSeq(s, Len(prefix) + 1, Len(s))
    ELSE s

RECURSIVE DecimalValue(_, _)
DecimalValue(s, acc) ==
    IF s = <<>> THEN acc
    ELSE DecimalValue(Tail(s), (acc * 10) + DigitVal(Head(s)))

\* strconv.Atoi(s): an optional sign, then one or more decimal digits.  The
\* labels of the model are short, so the range error cannot happen.
Atoi(s) ==
    LET signed == Len(s) > 0 /\ Head(s) \in {"+", "-"}
        body == IF signed THEN Tail(s) ELSE s
    IN  IF body = <<>> \/ \E i \in 1..Len(body) : ~IsDigit(body[i])
        THEN [val |-> 0, err |-> "invalid syntax"]
        ELSE [val |-> IF signed /\ Head(s) = "-"
                      THEN 0 - DecimalValue(body, 0)
                      ELSE DecimalValue(body, 0),
              err |-> Nil]

-----------------------------------------------------------------------------
(* The VCF files of the model                                              *)

chr == <<"c", "h", "r">>

\* Chromosome labels: chr22, 7, chrX
Labels == { <<"c", "h", "r", "2", "2">>, <<"7">>, <<"c", "h", "r", "X">> }

ChromosomeRecords == {[Chromosome |-> l] : l \in Labels}

\* A file that is missing, a file whose header the reader rejects, or a
\* readable file with its records.
File(exists, header, records) ==
    [exists |-> exists, header |-> header, records |-> records]

ChromosomeFiles ==
    {File(FALSE, TRUE, <<>>), File(TRUE, FALSE, <<>>)}
    \cup {File(TRUE, TRUE, r) : r \in SeqsUpTo(ChromosomeRecords, MaxRecords)}

-----------------------------------------------------------------------------
(* extractChromosomeNumbers                                                *)

\* The read loop: rdr.Read() until nil, or until count >= maxCount.
RECURSIVE readLoop(_, _, _, _, _)
readLoop(records, i, chromosomesSoFar, count, maxCount) ==
    IF i > Len(records) THEN chromosomesSoFar
    ELSE LET chrStr == TrimPrefix(records[i].Chromosome, chr)
             parsed == Atoi(chrStr)
             next == IF parsed.err = Nil
                     THEN Append(chromosomesSoFar, parsed.val)
                     ELSE chromosomesSoFar
             count2 == IF parsed.err = Nil THEN count + 1 ELSE count
         IN  IF count2 >= maxCount THEN next
             ELSE readLoop(records, i + 1, next, count2, maxCount)

\* The same loop with the error of Atoi ignored: the zero it returns is kept.
RECURSIVE readLoop_ErrIgnored(_, _, _, _, _)
readLoop_ErrIgnored(records, i, chromosomesSoFar, count, maxCount) ==
    IF i > Len(records) THEN chromosomesSoFar
    ELSE LET chrStr == TrimPrefix(records[i].Chromosome, chr)
             parsed == Atoi(chrStr)
             next == Append(chromosomesSoFar, parsed.val)
             count2 == count + 1
         IN  IF count2 >= maxCount THEN next
             ELSE readLoop_ErrIgnored(records, i + 1, next, count2, maxCount)

extractChromosomeNumbers_ErrIgnored(file, maxCount) ==
    IF ~file.exists THEN [val |-> <<>>, err |-> "open"]
    ELSE IF ~file.header THEN [val |-> <<>>, err |-> "reader"]
    ELSE [val |-> readLoop_ErrIgnored(file.records, 1, <<>>, 0, maxCount), err |-> Nil]

extractChromosomeNumbers(file, maxCount) ==
    IF ~file.exists THEN [val |-> <<>>, err |-> "open"]
    ELSE IF ~file.header THEN [val |-> <<>>, err |-> "reader"]
    ELSE [val |-> readLoop(file.records, 1, <<>>, 0, maxCount), err |-> Nil]

-----------------------------------------------------------------------------
(* The backend (gnark), as the programs use it                             *)

\* An error a backend call returns for reasons of its own.
BackendErrs == {Nil, "backend"}

Call(op, err) == [op |-> op, err |-> err]

\* groth16.Setup: one key pair for the compiled circuit.
SetupKeys(ccs) == [pk |-> [ccs |-> ccs, pair |-> 1], vk |-> [ccs |-> ccs, pair |-> 1]]

\* The public part of an assignment.
Public(w) ==
    CASE w.circuit = "ChromosomeCircuit" ->
            [circuit |-> w.circuit, value |-> w.TargetChromosome]
      [] w.circuit = "EyeColorCircuit" -> [circuit |-> w.circuit, value |-> w.ClaimedColor]
      [] w.circuit = "CubicCircuit" -> [circuit |-> w.circuit, value |-> w.Y]

\* groth16.Prove: the solver rejects an assignment that does not satisfy the
\* constraints; otherwise the proof is bound to the key pair and the public part.
ProveErr(w, backendErr) == IF ~Define(w) THEN "constraint" ELSE backendErr

ProofOf(pk, w) == [pair |-> pk.pair, public |-> Public(w)]

\* groth16.Verify: nil for a proof made under the pair of vk for this public part.
VerifyErr(p, vk, pub, backendErr) ==
    IF p.pair = vk.pair /\ p.public = pub THEN backendErr ELSE "invalid proof"

Output(line) == stdout' = Append(stdout, line)

\* os.Exit(code)
Exit(code) == pc' = "exited" /\ exitCode' = code

-----------------------------------------------------------------------------
(* Circuit solver: Define applied to one assignment                        *)

Domain == 0..MaxValue

ChromosomeAssignments ==
    {[circuit |-> "ChromosomeCircuit", TargetChromosome |-> t, Chromosome1 |-> c1,
      Chromosome2 |-> c2, Chromosome3 |-> c3, Chromosome4 |-> c4, Chromosome5 |-> c5] :
        t \in Domain, c1 \in Domain, c2 \in Domain, c3 \in Domain,
        c4 \in Domain, c5 \in Domain}

EyeColorAssignments ==
    {[circuit |-> "EyeColorCircuit", ClaimedColor |-> o, Genotype |-> g] :
        o \in 0..(MaxValue + 1), g \in Domain}

NoFile == File(FALSE, TRUE, <<>>)

NoArgs == <<>>

\* The variables a program does not use keep these values.
DemoUnused ==
    /\ chromosomes = <<>> /\ paddedChromosomes = <<>>
    /\ genotype = Unset /\ claimedColor = Unset
    /\ keys = None /\ publicWitness = None /\ proof = None
    /\ ps = None

\* No file, no query, no second process
NoDisk == <<>>

StoreUnused == disk = NoDisk /\ pq = None /\ result = None /\ before = None /\ procs = <<>>

DumpUnused == rdr = 0 /\ dumpCount = 0

CliUnused == args = NoArgs /\ dirs = {} /\ proofObj = None /\ StoreUnused /\ DumpUnused

InitSolver ==
    /\ prog = "solver"
    /\ pc = "assigned"
    /\ exitCode = Running
    /\ stdout = <<>>
    /\ calls = <<>>
    /\ vcf = NoFile
    /\ witness \in ChromosomeAssignments \cup EyeColorAssignments
    /\ satisfied = FALSE
    /\ DemoUnused
    /\ CliUnused

\* The solver runs the constraints of the circuit on the assignment.
Solve ==
    /\ prog = "solver"
    /\ pc = "assigned"
    /\ satisfied' = Define(witness)
    /\ pc' = "solved"
    /\ UNCHANGED <<prog, exitCode, stdout, calls, vcf, chromosomes, paddedChromosomes,
                   genotype, claimedColor, keys, witness, publicWitness, proof,
                   args, dirs, proofObj, ps, storeVars, dumpVars>>

NextSolver == Solve

SpecSolver == InitSolver /\ [][NextSolver]_vars

-----------------------------------------------------------------------------
(* The chromosome programs: part_005, and part_004 which adds the target   *)
(* to the sample data when it is missing                                   *)

targetChromosome == 22
maxCount == 10
Slots == 5
Padding == 0

ChromosomePrograms == {"part_005", "part_004"}

\* Pad chromosomes to 5 items: slot i holds chromosomes[i], or the padding.
padChromosomes_TargetAsPadding(found) ==
    [i \in 1..Slots |-> IF i <= Len(found) THEN found[i] ELSE targetChromosome]

padChromosomes(found) ==
    [i \in 1..Slots |-> IF i <= Len(found) THEN found[i] ELSE Padding]

\* part_004 only: when no slot holds the target, slot 0 is overwritten with it.
addTargetForDemo(padded) ==
    IF \E i \in 1..Slots : padded[i] = targetChromosome
    THEN padded
    ELSE [padded EXCEPT ![1] = targetChromosome]

\* The witness assignment of main.
ChromosomeWitness_Slot4Twice(padded) ==
    [circuit |-> "ChromosomeCircuit", TargetChromosome |-> targetChromosome,
     Chromosome1 |-> padded[1], Chromosome2 |-> padded[2], Chromosome3 |-> padded[3],
     Chromosome4 |-> padded[4], Chromosome5 |-> padded[4]]

ChromosomeWitness(padded) ==
    [circuit |-> "ChromosomeCircuit", TargetChromosome |-> targetChromosome,
     Chromosome1 |-> padded[1], Chromosome2 |-> padded[2], Chromosome3 |-> padded[3],
     Chromosome4 |-> padded[4], Chromosome5 |-> padded[5]]

InitChromosome ==
    /\ prog \in ChromosomePrograms
    /\ pc = "start"
    /\ exitCode = Running
    /\ stdout = <<>>
    /\ calls = <<>>
    /\ vcf \in ChromosomeFiles
    /\ witness = None
    /\ satisfied = FALSE
    /\ DemoUnused
    /\ CliUnused

unusedByMain == <<prog, vcf, genotype, claimedColor, satisfied, args, dirs, proofObj, ps,
                  storeVars, dumpVars>>

\* main, up to the candidates: the file check of part_004, then
\* extractChromosomeNumbers and the test for an empty result.
main_ReadVCF ==
    /\ prog \in ChromosomePrograms
    /\ pc = "start"
    /\ IF prog = "part_004" /\ ~vcf.exists
       THEN /\ Output("No vcf file found")
            /\ Exit(1)
            /\ UNCHANGED chromosomes
       ELSE LET r == extractChromosomeNumbers(vcf, maxCount)
            IN  /\ chromosomes' = r.val
                /\ IF r.err # Nil
                   THEN /\ stdout' = stdout \o <<"Reading VCF file...", "Error reading VCF">>
                        /\ Exit(1)
                   ELSE IF Len(r.val) = 0
                   THEN /\ stdout' = stdout \o <<"Reading VCF file...",
                                  "No valid chromosome entries found in the VCF file.">>
                        /\ Exit(1)
                   ELSE /\ stdout' = stdout \o <<"Reading VCF file...",
                                                 "Found chromosome entries">>
                        /\ pc' = "compile"
                        /\ UNCHANGED exitCode
    /\ UNCHANGED <<calls, paddedChromosomes, keys, witness, publicWitness, proof>>
    /\ UNCHANGED unusedByMain

\* frontend.Compile of the circuit
main_Compile ==
    /\ prog \in ChromosomePrograms
    /\ pc = "compile"
    /\ \E err \in BackendErrs :
        /\ calls' = Append(calls, Call("Compile", err))
        /\ IF err # Nil
           THEN /\ stdout' = stdout \o <<"Compiling circuit...", "Circuit compilation error">>
                /\ Exit(1)
           ELSE /\ Output("Compiling circuit...")
                /\ pc' = "setup"
                /\ UNCHANGED exitCode
    /\ UNCHANGED <<chromosomes, paddedChromosomes, keys, witness, publicWitness, proof>>
    /\ UNCHANGED unusedByMain

\* groth16.Setup with the error reported but the run going on
main_Setup_ErrorIgnored ==
    /\ prog \in ChromosomePrograms
    /\ pc = "setup"
    /\ \E err \in BackendErrs :
        /\ calls' = Append(calls, Call("Setup", err))
        /\ IF err # Nil
           THEN stdout' = stdout \o <<"Setting up proving system...", "Setup error">>
           ELSE Output("Setting up proving system...")
        /\ keys' = SetupKeys("ChromosomeCircuit")
        /\ pc' = "witness"
        /\ UNCHANGED exitCode
    /\ UNCHANGED <<chromosomes, paddedChromosomes, witness, publicWitness, proof>>
    /\ UNCHANGED unusedByMain

\* groth16.Setup
main_Setup ==
    /\ prog \in ChromosomePrograms
    /\ pc = "setup"
    /\ \E err \in BackendErrs :
        /\ calls' = Append(calls, Call("Setup", err))
        /\ IF err # Nil
           THEN /\ stdout' = stdout \o <<"Setting up proving system...", "Setup error">>
                /\ Exit(1)
                /\ UNCHANGED keys
           ELSE /\ Output("Setting up proving system...")
                /\ keys' = SetupKeys("ChromosomeCircuit")
                /\ pc' = "witness"
                /\ UNCHANGED exitCode
    /\ UNCHANGED <<chromosomes, paddedChromosomes, witness, publicWitness, proof>>
    /\ UNCHANGED unusedByMain

\* The padding, the added target of part_004, the assignment, frontend.NewWitness
main_Witness ==
    /\ prog \in ChromosomePrograms
    /\ pc = "witness"
    /\ LET padded == padChromosomes(chromosomes)
           final == IF prog = "part_004" THEN addTargetForDemo(padded) ELSE padded
           lines == IF final # padded
                    THEN <<"Creating witness...",
                           "Adding target chromosome to sample data for demonstration">>
                    ELSE <<"Creating witness...">>
       IN  /\ paddedChromosomes' = final
           /\ witness' = ChromosomeWitness(final)
           /\ \E err \in BackendErrs :
                /\ calls' = Append(calls, Call("NewWitness", err))
                /\ IF err # Nil
                   THEN /\ stdout' = stdout \o lines \o <<"Witness creation error">>
                        /\ Exit(1)
                   ELSE /\ stdout' = stdout \o lines
                        /\ pc' = "public"
                        /\ UNCHANGED exitCode
    /\ UNCHANGED <<chromosomes, keys, publicWitness, proof>>
    /\ UNCHANGED unusedByMain

\* w.Public()
main_Public ==
    /\ prog \in ChromosomePrograms
    /\ pc = "public"
    /\ \E err \in BackendErrs :
        /\ calls' = Append(calls, Call("Public", err))
        /\ IF err # Nil
           THEN /\ Output("Public witness error")
                /\ Exit(1)
                /\ UNCHANGED publicWitness
           ELSE /\ publicWitness' = Public(witness)
                /\ pc' = "prove"
                /\ UNCHANGED <<stdout, exitCode>>
    /\ UNCHANGED <<chromosomes, paddedChromosomes, keys, witness, proof>>
    /\ UNCHANGED unusedByMain

\* groth16.Prove
main_Prove ==
    /\ prog \in ChromosomePrograms
    /\ pc = "prove"
    /\ \E backendErr \in BackendErrs :
        LET err == ProveErr(witness, backendErr)
        IN  /\ calls' = Append(calls, Call("Prove", err))
            /\ IF err # Nil
               THEN /\ stdout' = stdout \o <<"Generating proof...", "Proving error">>
                    /\ Exit(1)
                    /\ UNCHANGED proof
               ELSE /\ Output("Generating proof...")
                    /\ proof' = ProofOf(keys.pk, witness)
                    /\ pc' = "verify"
                    /\ UNCHANGED exitCode
    /\ UNCHANGED <<chromosomes, paddedChromosomes, keys, witness, publicWitness>>
    /\ UNCHANGED unusedByMain

\* groth16.Verify, then the success message and the return from main
main_Verify ==
    /\ prog \in ChromosomePrograms
    /\ pc = "verify"
    /\ \E backendErr \in BackendErrs :
        LET err == VerifyErr(proof, keys.vk, publicWitness, backendErr)
        IN  /\ calls' = Append(calls, Call("Verify", err))
            /\ IF err # Nil
               THEN /\ stdout' = stdout \o <<"Verifying proof...", "Verification failed">>
                    /\ Exit(1)
               ELSE /\ stdout' = stdout \o <<"Verifying proof...",
                                  "Proof successfully generated and verified!">>
                    /\ Exit(0)
    /\ UNCHANGED <<chromosomes, paddedChromosomes, keys, witness, publicWitness, proof>>
    /\ UNCHANGED unusedByMain

NextChromosome ==
    \/ main_ReadVCF
    \/ main_Compile
    \/ main_Setup
    \/ main_Witness
    \/ main_Public
    \/ main_Prove
    \/ main_Verify

SpecChromosome == InitChromosome /\ [][NextChromosome]_vars

-----------------------------------------------------------------------------
(* The eye colour program: cmd/eye_color.go                                *)

rs12913832 == "rs12913832"

VariantIDs == {rs12913832, "rs1426654"}

GenotypeCalls == {"0/0", "0/1", "1/0", "1/1", "./."}

EyeRecords == {[ID |-> id, Genotype |-> gt] : id \in VariantIDs, gt \in GenotypeCalls}

EyeFiles ==
    {File(FALSE, TRUE, <<>>), File(TRUE, FALSE, <<>>)}
    \cup {File(TRUE, TRUE, r) : r \in SeqsUpTo(EyeRecords, MaxEyeRecords)}

\* The switch on the genotype call of the record found.
genotypeOfCall_NoReversedCall(gt) ==
    CASE gt = "0/0" -> [val |-> 0, err |-> Nil]
      [] gt = "0/1" -> [val |-> 1, err |-> Nil]
      [] gt = "1/1" -> [val |-> 2, err |-> Nil]
      [] OTHER -> [val |-> 0, err |-> "unknown genotype"]

genotypeOfCall(gt) ==
    CASE gt = "0/0" -> [val |-> 0, err |-> Nil]
      [] gt \in {"0/1", "1/0"} -> [val |-> 1, err |-> Nil]
      [] gt = "1/1" -> [val |-> 2, err |-> Nil]
      [] OTHER -> [val |-> 0, err |-> "unknown genotype"]

\* The read loop: the first record whose ID is rs12913832 decides.
RECURSIVE scanForGenotype(_, _)
scanForGenotype(records, i) ==
    IF i > Len(records) THEN [val |-> 0, err |-> "rs12913832 not found in VCF"]
    ELSE IF records[i].ID = rs12913832 THEN genotypeOfCall(records[i].Genotype)
    ELSE scanForGenotype(records, i + 1)

extractEyeColorGenotype(file) ==
    IF ~file.exists THEN [val |-> 0, err |-> "open"]
    ELSE IF ~file.header THEN [val |-> 0, err |-> "reader"]
    ELSE scanForGenotype(file.records, 1)

EyeColorWitness(claimed, g) ==
    [circuit |-> "EyeColorCircuit", ClaimedColor |-> claimed, Genotype |-> g]

InitEyeColor ==
    /\ prog = "eye_color"
    /\ pc = "start"
    /\ exitCode = Running
    /\ stdout = <<>>
    /\ calls = <<>>
    /\ vcf \in EyeFiles
    /\ witness = None
    /\ satisfied = FALSE
    /\ DemoUnused
    /\ CliUnused

unusedByEye == <<prog, vcf, chromosomes, paddedChromosomes, satisfied, args, dirs, proofObj,
                 ps, storeVars, dumpVars>>

\* main, up to the claimed colour: extractEyeColorGenotype, genotypeToColor
eye_ReadGenotype ==
    /\ prog = "eye_color"
    /\ pc = "start"
    /\ LET r == extractEyeColorGenotype(vcf)
           color == genotypeToColor(r.val)
       IN  /\ genotype' = r.val
           /\ IF r.err # Nil
              THEN /\ stdout' = stdout \o <<"Reading VCF for rs12913832 genotype...",
                                            "Error: " \o r.err>>
                   /\ Exit(1)
                   /\ UNCHANGED claimedColor
              ELSE /\ claimedColor' = color
                   /\ IF color = 0
                      THEN /\ stdout' = stdout \o <<"Reading VCF for rs12913832 genotype...",
                                                    "Could not map genotype to eye color.">>
                           /\ Exit(1)
                      ELSE /\ stdout' = stdout \o <<"Reading VCF for rs12913832 genotype...",
                                                    "Genotype at rs12913832, Claimed eye color">>
                           /\ pc' = "compile"
                           /\ UNCHANGED exitCode
    /\ UNCHANGED <<calls, keys, witness, publicWitness, proof>>
    /\ UNCHANGED unusedByEye

\* frontend.Compile of the eye colour circuit
eye_Compile ==
    /\ prog = "eye_color"
    /\ pc = "compile"
    /\ \E err \in BackendErrs :
        /\ calls' = Append(calls, Call("Compile", err))
        /\ IF err # Nil
           THEN /\ stdout' = stdout \o <<"Compiling eye color circuit...",
                                         "Circuit compilation error">>
                /\ Exit(1)
           ELSE /\ Output("Compiling eye color circuit...")
                /\ pc' = "setup"
                /\ UNCHANGED exitCode
    /\ UNCHANGED <<genotype, claimedColor, keys, witness, publicWitness, proof>>
    /\ UNCHANGED unusedByEye

\* groth16.Setup
eye_Setup ==
    /\ prog = "eye_color"
    /\ pc = "setup"
    /\ \E err \in BackendErrs :
        /\ calls' = Append(calls, Call("Setup", err))
        /\ IF err # Nil
           THEN /\ stdout' = stdout \o <<"Setting up proving system...", "Setup error">>
                /\ Exit(1)
                /\ UNCHANGED keys
           ELSE /\ Output("Setting up proving system...")
                /\ keys' = SetupKeys("EyeColorCircuit")
                /\ pc' = "witness"
                /\ UNCHANGED exitCode
    /\ UNCHANGED <<genotype, claimedColor, witness, publicWitness, proof>>
    /\ UNCHANGED unusedByEye

\* The assignment and frontend.NewWitness
eye_Witness ==
    /\ prog = "eye_color"
    /\ pc = "witness"
    /\ witness' = EyeColorWitness(claimedColor, genotype)
    /\ \E err \in BackendErrs :
        /\ calls' = Append(calls, Call("NewWitness", err))
        /\ IF err # Nil
           THEN /\ Output("Witness creation error")
                /\ Exit(1)
           ELSE /\ pc' = "public"
                /\ UNCHANGED <<stdout, exitCode>>
    /\ UNCHANGED <<genotype, claimedColor, keys, publicWitness, proof>>
    /\ UNCHANGED unusedByEye

\* w.Public()
eye_Public ==
    /\ prog = "eye_color"
    /\ pc = "public"
    /\ \E err \in BackendErrs :
        /\ calls' = Append(calls, Call("Public", err))
        /\ IF err # Nil
           THEN /\ Output("Public witness error")
                /\ Exit(1)
                /\ UNCHANGED publicWitness
           ELSE /\ publicWitness' = Public(witness)
                /\ pc' = "prove"
                /\ UNCHANGED <<stdout, exitCode>>
    /\ UNCHANGED <<genotype, claimedColor, keys, witness, proof>>
    /\ UNCHANGED unusedByEye

\* groth16.Prove
eye_Prove ==
    /\ prog = "eye_color"
    /\ pc = "prove"
    /\ \E backendErr \in BackendErrs :
        LET err == ProveErr(witness, backendErr)
        IN  /\ calls' = Append(calls, Call("Prove", err))
            /\ IF err # Nil
               THEN /\ stdout' = stdout \o <<"Generating proof...", "Proving error">>
                    /\ Exit(1)
                    /\ UNCHANGED proof
               ELSE /\ Output("Generating proof...")
                    /\ proof' = ProofOf(keys.pk, witness)
                    /\ pc' = "verify"
                    /\ UNCHANGED exitCode
    /\ UNCHANGED <<genotype, claimedColor, keys, witness, publicWitness>>
    /\ UNCHANGED unusedByEye

\* groth16.Verify, then the success message and the return from main
eye_Verify ==
    /\ prog = "eye_color"
    /\ pc = "verify"
    /\ \E backendErr \in BackendErrs :
        LET err == VerifyErr(proof, keys.vk, publicWitness, backendErr)
        IN  /\ calls' = Append(calls, Call("Verify", err))
            /\ IF err # Nil
               THEN /\ stdout' = stdout \o <<"Verifying proof...", "Verification failed">>
                    /\ Exit(1)
               ELSE /\ stdout' = stdout \o <<"Verifying proof...",
                                  "Eye color proof successfully generated and verified!">>
                    /\ Exit(0)
    /\ UNCHANGED <<genotype, claimedColor, keys, witness, publicWitness, proof>>
    /\ UNCHANGED unusedByEye

NextEyeColor ==
    \/ eye_ReadGenotype
    \/ eye_Compile
    \/ eye_Setup
    \/ eye_Witness
    \/ eye_Public
    \/ eye_Prove
    \/ eye_Verify

SpecEyeColor == InitEyeColor /\ [][NextEyeColor]_vars

-----------------------------------------------------------------------------
(* The cubic proof system (part_003): NewProofSystem and GenerateProof     *)

\* The inputs GenerateProof is called with: x, and y = x^3 + x + 5 of some x.
CubicInputs == {[x |-> x, y |-> (v * v * v) + v + 5] : x \in Domain, v \in Domain}

\* ps := &ProofSystem{witness: make(map[string]interface{})}
NewProofSystemValue ==
    [r1cs |-> None, pk |-> None, vk |-> None, proof |-> None, witness |-> <<>>]

InitProofSystem ==
    /\ prog = "part_003"
    /\ pc = "NewProofSystem"
    /\ exitCode = Running
    /\ stdout = <<>>
    /\ calls = <<>>
    /\ vcf = NoFile
    /\ witness = None
    /\ satisfied = FALSE
    /\ chromosomes = <<>> /\ paddedChromosomes = <<>>
    /\ genotype = Unset /\ claimedColor = Unset
    /\ keys = None /\ publicWitness = None /\ proof = None
    /\ ps = NewProofSystemValue
    /\ CliUnused

unusedByProofSystem == <<prog, vcf, chromosomes, paddedChromosomes, genotype, claimedColor,
                         keys, proof, satisfied, args, dirs, proofObj, storeVars, dumpVars>>

\* NewProofSystem: frontend.Compile; main ends with log.Fatalf on the error
NewProofSystem_Compile ==
    /\ prog = "part_003"
    /\ pc = "NewProofSystem"
    /\ \E err \in BackendErrs :
        /\ calls' = Append(calls, Call("Compile", err))
        /\ IF err # Nil
           THEN /\ Output("Failed to initialize proof system: failed to compile circuit")
                /\ Exit(1)
                /\ UNCHANGED ps
           ELSE /\ ps' = [ps EXCEPT !.r1cs = "CubicCircuit"]
                /\ pc' = "Setup"
                /\ UNCHANGED <<stdout, exitCode>>
    /\ UNCHANGED <<witness, publicWitness>>
    /\ UNCHANGED unusedByProofSystem

\* NewProofSystem: groth16.Setup
NewProofSystem_Setup ==
    /\ prog = "part_003"
    /\ pc = "Setup"
    /\ \E err \in BackendErrs :
        /\ calls' = Append(calls, Call("Setup", err))
        /\ IF err # Nil
           THEN /\ Output("Failed to initialize proof system: failed to perform trusted setup")
                /\ Exit(1)
                /\ UNCHANGED ps
           ELSE /\ ps' = [ps EXCEPT !.pk = SetupKeys(ps.r1cs).pk, !.vk = SetupKeys(ps.r1cs).vk]
                /\ pc' = "GenerateProof"
                /\ UNCHANGED <<stdout, exitCode>>
    /\ UNCHANGED <<witness, publicWitness>>
    /\ UNCHANGED unusedByProofSystem

\* GenerateProof(x, y): the assignment, ps.witness["x"], ps.witness["y"], and
\* the public-only witness
GenerateProof_Witness ==
    /\ prog = "part_003"
    /\ pc = "GenerateProof"
    /\ \E in \in CubicInputs :
        /\ witness' = [circuit |-> "CubicCircuit", X |-> in.x, Y |-> in.y]
        /\ ps' = [ps EXCEPT !.witness = <<in.x, in.y>>]
        /\ \E err \in BackendErrs :
            /\ calls' = Append(calls, Call("NewWitness(PublicOnly)", err))
            /\ IF err # Nil
               THEN /\ Output("Failed to generate proof: failed to create witness")
                    /\ Exit(1)
                    /\ UNCHANGED publicWitness
               ELSE /\ publicWitness' = Public(witness')
                    /\ pc' = "fullWitness"
                    /\ UNCHANGED <<stdout, exitCode>>
    /\ UNCHANGED unusedByProofSystem

\* GenerateProof: the full witness
GenerateProof_FullWitness ==
    /\ prog = "part_003"
    /\ pc = "fullWitness"
    /\ \E err \in BackendErrs :
        /\ calls' = Append(calls, Call("NewWitness", err))
        /\ IF err # Nil
           THEN /\ Output("Failed to generate proof: failed to create full witness")
                /\ Exit(1)
           ELSE /\ pc' = "Prove"
                /\ UNCHANGED <<stdout, exitCode>>
    /\ UNCHANGED <<witness, publicWitness, ps>>
    /\ UNCHANGED unusedByProofSystem

\* GenerateProof: ps.proof, err = groth16.Prove(ps.r1cs, ps.pk, fullWitness)
GenerateProof_Prove ==
    /\ prog = "part_003"
    /\ pc = "Prove"
    /\ \E backendErr \in BackendErrs :
        LET err == ProveErr(witness, backendErr)
        IN  /\ calls' = Append(calls, Call("Prove", err))
            /\ IF err # Nil
               THEN /\ ps' = [ps EXCEPT !.proof = None]
                    /\ Output("Failed to generate proof: failed to generate proof")
                    /\ Exit(1)
               ELSE /\ ps' = [ps EXCEPT !.proof = ProofOf(ps.pk, witness)]
                    /\ pc' = "Verify"
                    /\ UNCHANGED <<stdout, exitCode>>
    /\ UNCHANGED <<witness, publicWitness>>
    /\ UNCHANGED unusedByProofSystem

\* GenerateProof: groth16.Verify(ps.proof, ps.vk, witness), then the return
\* to main, which goes on to SaveToFiles and the queries
GenerateProof_Verify ==
    /\ prog = "part_003"
    /\ pc = "Verify"
    /\ \E backendErr \in BackendErrs :
        LET err == VerifyErr(ps.proof, ps.vk, publicWitness, backendErr)
        IN  /\ calls' = Append(calls, Call("Verify", err))
            /\ IF err # Nil
               THEN /\ Output("Failed to generate proof: failed to verify proof")
                    /\ Exit(1)
               ELSE /\ pc' = "generated"
                    /\ UNCHANGED <<stdout, exitCode>>
    /\ UNCHANGED <<witness, publicWitness, ps>>
    /\ UNCHANGED unusedByProofSystem

NextProofSystem ==
    \/ NewProofSystem_Compile
    \/ NewProofSystem_Setup
    \/ GenerateProof_Witness
    \/ GenerateProof_FullWitness
    \/ GenerateProof_Prove
    \/ GenerateProof_Verify

SpecProofSystem == InitProofSystem /\ [][NextProofSystem]_vars

\* The programs that run the pipeline from compilation to verification
InitPipeline == InitChromosome \/ InitProofSystem

NextPipeline == NextChromosome \/ NextProofSystem

SpecPipeline == InitPipeline /\ [][NextPipeline]_vars

-----------------------------------------------------------------------------
(* The command line front end (part_000) and the proof types (part_003)    *)

UpperChars == <<"A", "B", "C", "D", "E", "F", "G", "H", "I", "J", "K", "L", "M",
                "N", "O", "P", "Q", "R", "S", "T", "U", "V", "W", "X", "Y", "Z">>
LowerChars == <<"a", "b", "c", "d", "e", "f", "g", "h", "i", "j", "k", "l", "m",
                "n", "o", "p", "q", "r", "s", "t", "u", "v", "w", "x", "y", "z">>

ToLowerChar(ch) ==
    IF \E i \in 1..Len(UpperChars) : UpperChars[i] = ch
    THEN LowerChars[CHOOSE i \in 1..Len(UpperChars) : UpperChars[i] = ch]
    ELSE ch

\* strings.ToLower
ToLower(s) == [i \in 1..Len(s) |-> ToLowerChar(s[i])]

chromosome == <<"c", "h", "r", "o", "m", "o", "s", "o", "m", "e">>
eyecolor == <<"e", "y", "e", "c", "o", "l", "o", "r">>
brca1 == <<"b", "r", "c", "a", "1">>
herc2 == <<"h", "e", "r", "c", "2">>

\* The values given to -type: the four identifiers, two of them also in
\* another case, an identifier of no proof type, and the flag left out.
TypeFlags == {chromosome, eyecolor, brca1, herc2, <<"C", "h", "r", "o", "m", "o", "s", "o", "m", "e">>, <<"H", "E", "R", "C", "2">>, <<"m", "t", "d", "n", "a">>, <<>>}

\* The proof types of package proofs: each struct embeds the Proof interface,
\* and createProof leaves the embedded value nil.
ProofValue(type) == [type |-> type, Proof |-> Nil]

\* The nil interface value
NilProof == [type |-> Nil, Proof |-> Nil]

\* The types that declare Generate and Verify of their own, so that a call
\* does not reach the embedded nil Proof.
OwnMethods == {"ChromosomeProof", "EyeColorProof", "BRCA1Proof", "HERC2Proof"}

\* A method call on a proof value panics on the nil interface and on a type
\* whose method is the one promoted from the embedded nil Proof.
CallPanics(p) == p = NilProof \/ p.type \notin OwnMethods

\* createProof with the herc2 case returning no value and no error
createProof_Herc2Nil(proofType) ==
    LET lower == ToLower(proofType)
    IN  CASE lower = chromosome -> [proof |-> ProofValue("ChromosomeProof"), err |-> Nil]
          [] lower = eyecolor -> [proof |-> ProofValue("EyeColorProof"), err |-> Nil]
          [] lower = brca1 -> [proof |-> ProofValue("BRCA1Proof"), err |-> Nil]
          [] lower = herc2 -> [proof |-> NilProof, err |-> Nil]
          [] OTHER -> [proof |-> NilProof, err |-> "unknown proof type"]

createProof(proofType) ==
    LET lower == ToLower(proofType)
    IN  CASE lower = chromosome -> [proof |-> ProofValue("ChromosomeProof"), err |-> Nil]
          [] lower = eyecolor -> [proof |-> ProofValue("EyeColorProof"), err |-> Nil]
          [] lower = brca1 -> [proof |-> ProofValue("BRCA1Proof"), err |-> Nil]
          [] lower = herc2 -> [proof |-> ProofValue("HERC2Proof"), err |-> Nil]
          [] OTHER -> [proof |-> NilProof, err |-> "unknown proof type"]

\* filepath.Join(dir, name)
Join(dir, name) == [dir |-> dir, name |-> name]

ProofBinSuffix == <<"_", "p", "r", "o", "o", "f", ".", "b", "i", "n">>

GenerateArgs ==
    {[command |-> "generate", type |-> t, vcf |-> v, output |-> o, provingKey |-> k,
      outputDir |-> d] :
        t \in TypeFlags, v \in {"", "genome.vcf"}, o \in {"", "my_proof.bin"},
        k \in {"", "my_proof.bin.pk"}, d \in {"output"}}

VerifyArgs ==
    {[command |-> "verify", type |-> t, proof |-> pf, verifyingKey |-> k] :
        t \in TypeFlags, pf \in {"", "my_proof.bin"}, k \in {"", "other.vk"}}

OtherArgs == {[command |-> c] : c \in {"", "help", "-h", "--help", "prove"}}

InitCli ==
    /\ prog = "cli"
    /\ pc = "start"
    /\ exitCode = Running
    /\ stdout = <<>>
    /\ calls = <<>>
    /\ vcf = NoFile
    /\ witness = None
    /\ satisfied = FALSE
    /\ DemoUnused
    /\ args \in GenerateArgs \cup VerifyArgs \cup OtherArgs
    /\ dirs \in {{}, {"output"}}
    /\ proofObj = None
    /\ StoreUnused
    /\ DumpUnused

unusedByCli == <<prog, vcf, chromosomes, paddedChromosomes, genotype, claimedColor, keys,
                 witness, publicWitness, proof, satisfied, ps, storeVars, dumpVars>>

\* main: the switch on the command; command "" stands for no argument at all
cli_main ==
    /\ prog = "cli"
    /\ pc = "start"
    /\ IF args.command = ""
       THEN Output("usage") /\ Exit(1)
       ELSE IF args.command = "generate"
       THEN pc' = "handleGenerate" /\ UNCHANGED <<stdout, exitCode>>
       ELSE IF args.command = "verify"
       THEN pc' = "handleVerify" /\ UNCHANGED <<stdout, exitCode>>
       ELSE IF args.command \in {"help", "-h", "--help"}
       THEN Output("usage") /\ Exit(0)
       ELSE stdout' = stdout \o <<"Unknown command", "usage">> /\ Exit(1)
    /\ UNCHANGED <<calls, args, dirs, proofObj>>
    /\ UNCHANGED unusedByCli

\* handleGenerate, up to the dispatch: the required flags, os.MkdirAll of the
\* output directory, the default output path
handleGenerate_Flags ==
    /\ prog = "cli"
    /\ pc = "handleGenerate"
    /\ IF args.type = <<>> \/ args.vcf = ""
       THEN /\ stdout' = stdout \o <<"Error: -type and -vcf are required", "usage">>
            /\ Exit(1)
            /\ UNCHANGED <<calls, args, dirs>>
       ELSE \E err \in {Nil, "mkdir"} :
            /\ calls' = Append(calls, Call("MkdirAll", err))
            /\ IF err # Nil
               THEN /\ Output("Error creating output directory")
                    /\ Exit(1)
                    /\ UNCHANGED <<args, dirs>>
               ELSE /\ dirs' = dirs \cup {args.outputDir}
                    /\ args' = IF args.output = ""
                               THEN [args EXCEPT !.output =
                                        Join(args.outputDir, args.type \o ProofBinSuffix)]
                               ELSE args
                    /\ pc' = "generate_createProof"
                    /\ UNCHANGED <<stdout, exitCode>>
    /\ UNCHANGED proofObj
    /\ UNCHANGED unusedByCli

\* handleGenerate: createProof and its error ignored
handleGenerate_CreateProof_ErrorDropped ==
    /\ prog = "cli"
    /\ pc = "generate_createProof"
    /\ LET r == createProof(args.type)
       IN  /\ proofObj' = r.proof
           /\ Output("Generating proof...")
           /\ pc' = "generate_call"
           /\ UNCHANGED exitCode
    /\ UNCHANGED <<calls, args, dirs>>
    /\ UNCHANGED unusedByCli

\* handleGenerate: createProof, os.Exit(1) on its error
handleGenerate_CreateProof ==
    /\ prog = "cli"
    /\ pc = "generate_createProof"
    /\ LET r == createProof(args.type)
       IN  IF r.err # Nil
           THEN /\ Output("Error: " \o r.err)
                /\ Exit(1)
                /\ UNCHANGED proofObj
           ELSE /\ proofObj' = r.proof
                /\ Output("Generating proof...")
                /\ pc' = "generate_call"
                /\ UNCHANGED exitCode
    /\ UNCHANGED <<calls, args, dirs>>
    /\ UNCHANGED unusedByCli

\* The panic of the Go runtime: the process ends with exit code 2.
Panic ==
    /\ Output("panic: runtime error: invalid memory address or nil pointer dereference")
    /\ Exit(2)

\* handleGenerate: proof.Generate(vcfPath, provingKeyPath, outputPath)
handleGenerate_Generate ==
    /\ prog = "cli"
    /\ pc = "generate_call"
    /\ IF CallPanics(proofObj)
       THEN Panic /\ UNCHANGED calls
       ELSE \E err \in {Nil, "generate"} :
            /\ calls' = Append(calls, Call("Generate", err))
            /\ IF err # Nil
               THEN Output("Error generating proof") /\ Exit(1)
               ELSE Output("Successfully generated proof") /\ Exit(0)
    /\ UNCHANGED <<args, dirs, proofObj>>
    /\ UNCHANGED unusedByCli

\* handleVerify, up to the dispatch: the required flags, the default
\* verifying key path
handleVerify_Flags ==
    /\ prog = "cli"
    /\ pc = "handleVerify"
    /\ IF args.type = <<>> \/ args.proof = ""
       THEN /\ stdout' = stdout \o <<"Error: -type and -proof are required", "usage">>
            /\ Exit(1)
            /\ UNCHANGED args
       ELSE /\ args' = IF args.verifyingKey = ""
                       THEN [args EXCEPT !.verifyingKey = args.proof \o ".vk"]
                       ELSE args
            /\ pc' = "verify_createProof"
            /\ UNCHANGED <<stdout, exitCode>>
    /\ UNCHANGED <<calls, dirs, proofObj>>
    /\ UNCHANGED unusedByCli

\* handleVerify: createProof, os.Exit(1) on its error
handleVerify_CreateProof ==
    /\ prog = "cli"
    /\ pc = "verify_createProof"
    /\ LET r == createProof(args.type)
       IN  IF r.err # Nil
           THEN /\ Output("Error: " \o r.err)
                /\ Exit(1)
                /\ UNCHANGED proofObj
           ELSE /\ proofObj' = r.proof
                /\ Output("Verifying proof...")
                /\ pc' = "verify_call"
                /\ UNCHANGED exitCode
    /\ UNCHANGED <<calls, args, dirs>>
    /\ UNCHANGED unusedByCli

\* handleVerify: proof.Verify(verifyingKeyPath, proofPath) and the report
handleVerify_Verify ==
    /\ prog = "cli"
    /\ pc = "verify_call"
    /\ IF CallPanics(proofObj)
       THEN Panic /\ UNCHANGED calls
       ELSE \E r \in {[verified |-> TRUE, err |-> Nil], [verified |-> FALSE, err |-> Nil],
                      [verified |-> FALSE, err |-> "verify"]} :
            /\ calls' = Append(calls, [op |-> "Verify", err |-> r.err,
                                       verified |-> r.verified])
            /\ IF r.err # Nil
               THEN Output("Error verifying proof") /\ Exit(1)
               ELSE IF r.verified
               THEN Output("proof verified successfully!") /\ Exit(0)
               ELSE Output("proof verification failed!") /\ Exit(1)
    /\ UNCHANGED <<args, dirs, proofObj>>
    /\ UNCHANGED unusedByCli

NextCli ==
    \/ cli_main
    \/ handleGenerate_Flags
    \/ handleGenerate_CreateProof
    \/ handleGenerate_Generate
    \/ handleVerify_Flags
    \/ handleVerify_CreateProof
    \/ handleVerify_Verify

SpecCli == InitCli /\ [][NextCli]_vars

-----------------------------------------------------------------------------
(* part_003: the key files, SaveToFiles and LoadFromFiles                  *)

MaxApiValue == 1
MaxCalls == 2

\* groth16.Setup draws fresh randomness: the n-th Setup of a circuit gives
\* the n-th key pair.  SetupKeys is the first.
SetupKeysOf(ccs, n) ==
    [pk |-> [ccs |-> ccs, pair |-> n], vk |-> [ccs |-> ccs, pair |-> n]]

\* groth16.NewProvingKey, groth16.NewVerifyingKey: a key with nothing in it
NewKey == [ccs |-> "", pair |-> 0]

ProvingKeyFile(dir) == dir \o "/proving.key"
VerifyingKeyFile(dir) == dir \o "/verifying.key"

\* os.Create leaves an empty file; a WriteTo that fails leaves a part of the
\* bytes; a WriteTo that returns nil leaves the bytes of the key.
EmptyFile == [kind |-> "empty"]
PartialFile == [kind |-> "partial"]

\* pk.WriteTo, vk.WriteTo: the bytes of a key
ProvingKeyBytes(pk) == [kind |-> "ProvingKey", ccs |-> pk.ccs, pair |-> pk.pair]

\* vk.WriteTo that writes the circuit and not the key material
VerifyingKeyBytes_KeyLost(vk) == [kind |-> "VerifyingKey", ccs |-> vk.ccs, pair |-> 0]

VerifyingKeyBytes(vk) == [kind |-> "VerifyingKey", ccs |-> vk.ccs, pair |-> vk.pair]

\* pk.ReadFrom, vk.ReadFrom: the key of the bytes, or an error
ReadProvingKey(bytes) ==
    IF bytes.kind = "ProvingKey"
    THEN [key |-> [ccs |-> bytes.ccs, pair |-> bytes.pair], err |-> Nil]
    ELSE [key |-> NewKey, err |-> "read"]

ReadVerifyingKey(bytes) ==
    IF bytes.kind = "VerifyingKey"
    THEN [key |-> [ccs |-> bytes.ccs, pair |-> bytes.pair], err |-> Nil]
    ELSE [key |-> NewKey, err |-> "read"]

WriteFile(d, name, content) ==
    [n \in DOMAIN d \cup {name} |-> IF n = name THEN content ELSE d[n]]

\* The file system: the directories and the files
FileSystem(directories, files) == [dirs |-> directories, disk |-> files]

SaveSteps == {"MkdirAll", "CreatePk", "WritePk", "CreateVk", "WriteVk"}

\* SaveToFiles that leaves a verifying.key it finds in the directory as it is
SaveToFiles_Step_VerifyingKeyKept(step, sys, dir, fs, err) ==
    CASE step = "MkdirAll" ->
            IF err # Nil
            THEN [next |-> "return", err |-> err, fs |-> fs]
            ELSE [next |-> "CreatePk", err |-> Nil,
                  fs |-> [fs EXCEPT !.dirs = @ \cup {dir}]]
      [] step = "CreatePk" ->
            IF err # Nil
            THEN [next |-> "return", err |-> err, fs |-> fs]
            ELSE [next |-> "WritePk", err |-> Nil,
                  fs |-> [fs EXCEPT !.disk = WriteFile(@, ProvingKeyFile(dir), EmptyFile)]]
      [] step = "WritePk" ->
            IF err # Nil
            THEN [next |-> "return", err |-> err,
                  fs |-> [fs EXCEPT !.disk = WriteFile(@, ProvingKeyFile(dir), PartialFile)]]
            ELSE [next |-> "CreateVk", err |-> Nil,
                  fs |-> [fs EXCEPT !.disk =
                             WriteFile(@, ProvingKeyFile(dir), ProvingKeyBytes(sys.pk))]]
      [] step = "CreateVk" ->
            IF err # Nil
            THEN [next |-> "return", err |-> err, fs |-> fs]
            ELSE IF VerifyingKeyFile(dir) \in DOMAIN fs.disk
            THEN [next |-> "return", err |-> Nil, fs |-> fs]
            ELSE [next |-> "WriteVk", err |-> Nil,
                  fs |-> [fs EXCEPT !.disk = WriteFile(@, VerifyingKeyFile(dir), EmptyFile)]]
      [] step = "WriteVk" ->
            IF err # Nil
            THEN [next |-> "return", err |-> err,
                  fs |-> [fs EXCEPT !.disk = WriteFile(@, VerifyingKeyFile(dir), PartialFile)]]
            ELSE [next |-> "return", err |-> Nil,
                  fs |-> [fs EXCEPT !.disk =
                             WriteFile(@, VerifyingKeyFile(dir), VerifyingKeyBytes(sys.vk))]]

\* One step of SaveToFiles: the system call, with err its outcome, and the
\* step that follows ("return" when the method returns)
SaveToFiles_Step(step, sys, dir, fs, err) ==
    CASE step = "MkdirAll" ->
            IF err # Nil
            THEN [next |-> "return", err |-> err, fs |-> fs]
            ELSE [next |-> "CreatePk", err |-> Nil,
                  fs |-> [fs EXCEPT !.dirs = @ \cup {dir}]]
      [] step = "CreatePk" ->
            IF err # Nil
            THEN [next |-> "return", err |-> err, fs |-> fs]
            ELSE [next |-> "WritePk", err |-> Nil,
                  fs |-> [fs EXCEPT !.disk = WriteFile(@, ProvingKeyFile(dir), EmptyFile)]]
      [] step = "WritePk" ->
            IF err # Nil
            THEN [next |-> "return", err |-> err,
                  fs |-> [fs EXCEPT !.disk = WriteFile(@, ProvingKeyFile(dir), PartialFile)]]
            ELSE [next |-> "CreateVk", err |-> Nil,
                  fs |-> [fs EXCEPT !.disk =
                             WriteFile(@, ProvingKeyFile(dir), ProvingKeyBytes(sys.pk))]]
      [] step = "CreateVk" ->
            IF err # Nil
            THEN [next |-> "return", err |-> err, fs |-> fs]
            ELSE [next |-> "WriteVk", err |-> Nil,
                  fs |-> [fs EXCEPT !.disk = WriteFile(@, VerifyingKeyFile(dir), EmptyFile)]]
      [] step = "WriteVk" ->
            IF err # Nil
            THEN [next |-> "return", err |-> err,
                  fs |-> [fs EXCEPT !.disk = WriteFile(@, VerifyingKeyFile(dir), PartialFile)]]
            ELSE [next |-> "return", err |-> Nil,
                  fs |-> [fs EXCEPT !.disk =
                             WriteFile(@, VerifyingKeyFile(dir), VerifyingKeyBytes(sys.vk))]]

RECURSIVE SaveToFiles_From(_, _, _, _, _)
SaveToFiles_From(step, sys, dir, fs, failAt) ==
    LET r == SaveToFiles_Step(step, sys, dir, fs, IF step = failAt THEN "io" ELSE Nil)
    IN  IF r.next = "return"
        THEN [err |-> r.err, fs |-> r.fs]
        ELSE SaveToFiles_From(r.next, sys, dir, r.fs, failAt)

\* SaveToFiles that also writes the recorded witness next to the keys
SaveToFiles_WitnessSaved(sys, dir, fs, failAt) ==
    LET r == SaveToFiles_From("MkdirAll", sys, dir, fs, failAt)
    IN  IF r.err # Nil
        THEN r
        ELSE [r EXCEPT !.fs.disk = WriteFile(@, dir \o "/witness", sys.witness)]

\* ProofSystem.SaveToFiles(dir); failAt is the system call that fails, if any
SaveToFiles(sys, dir, fs, failAt) == SaveToFiles_From("MkdirAll", sys, dir, fs, failAt)

LoadSteps == {"OpenPk", "ReadPk", "OpenVk", "ReadVk"}

\* ProofSystem.LoadFromFiles(dir): ps.pk is replaced before its bytes are
\* read, and ps.vk likewise; failAt is the system call that fails for a reason
\* of its own, if any.
LoadFromFiles(sys, dir, d, failAt) ==
    LET pkName == ProvingKeyFile(dir)
        vkName == VerifyingKeyFile(dir)
    IN  IF pkName \notin DOMAIN d \/ failAt = "OpenPk"
        THEN [sys |-> sys, err |-> "open"]
        ELSE LET pk == ReadProvingKey(d[pkName])
                 sys1 == [sys EXCEPT !.pk = pk.key]
             IN  IF pk.err # Nil \/ failAt = "ReadPk"
                 THEN [sys |-> [sys EXCEPT !.pk = NewKey], err |-> "read"]
                 ELSE IF vkName \notin DOMAIN d \/ failAt = "OpenVk"
                 THEN [sys |-> sys1, err |-> "open"]
                 ELSE LET vk == ReadVerifyingKey(d[vkName])
                      IN  IF vk.err # Nil \/ failAt = "ReadVk"
                          THEN [sys |-> [sys1 EXCEPT !.vk = NewKey], err |-> "read"]
                          ELSE [sys |-> [sys1 EXCEPT !.vk = vk.key], err |-> Nil]

-----------------------------------------------------------------------------
(* part_003: GenerateProof as one call, NewProofQuery, ExecuteQuery        *)

GenerateSteps == {"NewWitness(PublicOnly)", "NewWitness", "Prove", "Verify"}

CubicAssignment(x, y) == [circuit |-> "CubicCircuit", X |-> x, Y |-> y]

\* groth16.Prove with the proving key of the system: a key with nothing in
\* it cannot prove.
ProveWith(pk, w, backendErr) == IF pk = NewKey THEN "backend" ELSE ProveErr(w, backendErr)

\* GenerateProof that returns the proof without verifying it
GenerateProof_NoSelfCheck(sys, x, y, failAt) ==
    LET assignment == CubicAssignment(x, y)
        sys1 == [sys EXCEPT !.witness = <<x, y>>]
        proveErr == ProveWith(sys.pk, assignment, IF failAt = "Prove" THEN "backend" ELSE Nil)
        sys2 == [sys1 EXCEPT !.proof = IF proveErr # Nil THEN None
                                       ELSE ProofOf(sys.pk, assignment)]
    IN  IF failAt = "NewWitness(PublicOnly)"
        THEN [sys |-> sys1, err |-> "failed to create witness"]
        ELSE IF failAt = "NewWitness"
        THEN [sys |-> sys1, err |-> "failed to create full witness"]
        ELSE IF proveErr # Nil
        THEN [sys |-> sys2, err |-> "failed to generate proof"]
        ELSE [sys |-> sys2, err |-> Nil]

\* ProofSystem.GenerateProof(x, y); failAt is the backend call that fails for
\* a reason of its own, if any.  ps.witness is written first; ps.proof is
\* assigned the result of groth16.Prove, nil when Prove fails.
GenerateProof(sys, x, y, failAt) ==
    LET assignment == CubicAssignment(x, y)
        sys1 == [sys EXCEPT !.witness = <<x, y>>]
        proveErr == ProveWith(sys.pk, assignment, IF failAt = "Prove" THEN "backend" ELSE Nil)
        sys2 == [sys1 EXCEPT !.proof = IF proveErr # Nil THEN None
                                       ELSE ProofOf(sys.pk, assignment)]
        verifyErr == VerifyErr(sys2.proof, sys.vk, Public(assignment),
                               IF failAt = "Verify" THEN "backend" ELSE Nil)
    IN  IF failAt = "NewWitness(PublicOnly)"
        THEN [sys |-> sys1, err |-> "failed to create witness"]
        ELSE IF failAt = "NewWitness"
        THEN [sys |-> sys1, err |-> "failed to create full witness"]
        ELSE IF proveErr # Nil
        THEN [sys |-> sys2, err |-> "failed to generate proof"]
        ELSE IF verifyErr # Nil
        THEN [sys |-> sys2, err |-> "failed to verify proof"]
        ELSE [sys |-> sys2, err |-> Nil]

\* ProofSystem.NewProofQuery: proof, vk and r1cs are copied; the witness map
\* is shared with the ProofSystem, so the query reads it through ps.witness.
NewProofQuery(sys) == [proof |-> sys.proof, vk |-> sys.vk, constraints |-> sys.r1cs]

\* proof.WriteTo: the curve points of a Groth16 proof
ProofBytes(p) == <<"Ar", "Bs", "Krs">>

\* GetNbConstraints of the compiled cubic circuit: two products, one equality
GetNbConstraints(ccs) == IF ccs = "CubicCircuit" THEN 3 ELSE 0

queries == <<"proof.size", "proof.verify", "circuit.constraints", "witness.public",
             "witness.private">>

Queries == Range(queries) \cup {"witness.x"}

Panicked == "panic"

\* ProofQuery.ExecuteQuery(query) on the query q, with w the witness map it
\* shares with the ProofSystem; backendErr is the outcome of the backend call
\* of the query when nothing else makes it fail.  A method call on a nil
\* proof panics.
ExecuteQuery(q, w, query, backendErr) ==
    CASE query = "proof.size" ->
            IF q.proof = None THEN [value |-> None, err |-> Panicked]
            ELSE IF backendErr # Nil THEN [value |-> None, err |-> backendErr]
            ELSE [value |-> Len(ProofBytes(q.proof)), err |-> Nil]
      [] query = "proof.verify" ->
            IF w = <<>> THEN [value |-> None, err |-> "missing assignment"]
            ELSE IF q.proof = None THEN [value |-> None, err |-> Panicked]
            ELSE LET err == VerifyErr(q.proof, q.vk, Public(CubicAssignment(0, w[2])),
                                      backendErr)
                 IN  [value |-> err = Nil, err |-> err]
      [] query = "circuit.constraints" ->
            [value |-> GetNbConstraints(q.constraints), err |-> Nil]
      [] query = "witness.public" ->
            [value |-> IF w = <<>> THEN None ELSE w[2], err |-> Nil]
      [] query = "witness.private" ->
            [value |-> "hidden (private witness)", err |-> Nil]
      [] OTHER -> [value |-> None, err |-> "unknown query"]

-----------------------------------------------------------------------------
(* part_003: a caller of the ProofSystem, method by method                 *)

KeysDir == "keys"

\* The ProofSystem that NewProofSystem returns after the n-th Setup
SystemOf(n) ==
    [NewProofSystemValue EXCEPT !.r1cs = "CubicCircuit",
                                !.pk = SetupKeysOf("CubicCircuit", n).pk,
                                !.vk = SetupKeysOf("CubicCircuit", n).vk]

EmptyFileSystem == FileSystem({}, NoDisk)

\* What earlier runs can have left in the directory: nothing, or what
\* SaveToFiles of a system of another Setup wrote before it returned
PriorFileSystems ==
    {EmptyFileSystem} \cup
    {SaveToFiles(SystemOf(2), KeysDir, EmptyFileSystem, failAt).fs :
        failAt \in SaveSteps \cup {"none"}}

CubicOf(v) == (v * v * v) + v + 5

\* The arguments of GenerateProof: x, and y the cubic of some value
ApiInputs == {[x |-> x, y |-> CubicOf(v)] : x \in 0..MaxApiValue, v \in 0..1}

InitApi ==
    /\ prog = "ProofSystem"
    /\ pc = "ready"
    /\ exitCode = Running
    /\ stdout = <<>>
    /\ calls = <<>>
    /\ vcf = NoFile
    /\ witness = None
    /\ satisfied = FALSE
    /\ chromosomes = <<>> /\ paddedChromosomes = <<>>
    /\ genotype = Unset /\ claimedColor = Unset
    /\ keys = None /\ publicWitness = None /\ proof = None
    /\ args = NoArgs /\ proofObj = None
    /\ ps = SystemOf(1)
    /\ \E fs \in PriorFileSystems : dirs = fs.dirs /\ disk = fs.disk
    /\ pq = None /\ result = None /\ before = None /\ procs = <<>>
    /\ DumpUnused

unusedByApi == <<prog, exitCode, stdout, vcf, chromosomes, paddedChromosomes, genotype,
                 claimedColor, keys, witness, publicWitness, proof, satisfied, args,
                 proofObj, procs, dumpVars>>

\* A call of ps.GenerateProof(x, y)
api_GenerateProof ==
    /\ prog = "ProofSystem"
    /\ pc = "ready"
    /\ Len(calls) < MaxCalls
    /\ \E in \in ApiInputs, failAt \in GenerateSteps \cup {"none"} :
        LET r == GenerateProof(ps, in.x, in.y, failAt)
        IN  /\ before' = ps
            /\ ps' = r.sys
            /\ calls' = Append(calls, Call("GenerateProof", r.err))
    /\ UNCHANGED <<pc, dirs, disk, pq, result>>
    /\ UNCHANGED unusedByApi

\* A call of ps.SaveToFiles("keys")
api_SaveToFiles ==
    /\ prog = "ProofSystem"
    /\ pc = "ready"
    /\ Len(calls) < MaxCalls
    /\ \E failAt \in SaveSteps \cup {"none"} :
        LET r == SaveToFiles(ps, KeysDir, FileSystem(dirs, disk), failAt)
        IN  /\ before' = ps
            /\ dirs' = r.fs.dirs
            /\ disk' = r.fs.disk
            /\ calls' = Append(calls, Call("SaveToFiles", r.err))
    /\ UNCHANGED <<pc, ps, pq, result>>
    /\ UNCHANGED unusedByApi

\* A call of ps.LoadFromFiles("keys")
api_LoadFromFiles ==
    /\ prog = "ProofSystem"
    /\ pc = "ready"
    /\ Len(calls) < MaxCalls
    /\ \E failAt \in LoadSteps \cup {"none"} :
        LET r == LoadFromFiles(ps, KeysDir, disk, failAt)
        IN  /\ before' = ps
            /\ ps' = r.sys
            /\ calls' = Append(calls, [op |-> "LoadFromFiles", err |-> r.err,
                                       failAt |-> failAt])
    /\ UNCHANGED <<pc, dirs, disk, pq, result>>
    /\ UNCHANGED unusedByApi

\* A call of ps.NewProofQuery()
api_NewProofQuery ==
    /\ prog = "ProofSystem"
    /\ pc = "ready"
    /\ pq = None
    /\ pq' = NewProofQuery(ps)
    /\ UNCHANGED <<pc, calls, ps, dirs, disk, result, before>>
    /\ UNCHANGED unusedByApi

\* A call of query.ExecuteQuery(q); a panic ends the caller
api_ExecuteQuery ==
    /\ prog = "ProofSystem"
    /\ pc = "ready"
    /\ pq # None
    /\ \E query \in Queries, backendErr \in BackendErrs :
        LET r == ExecuteQuery(pq, ps.witness, query, backendErr)
        IN  /\ result' = [query |-> query, value |-> r.value, err |-> r.err]
            /\ pc' = IF r.err = Panicked THEN "panicked" ELSE "queried"
    /\ UNCHANGED <<calls, ps, dirs, disk, pq, before>>
    /\ UNCHANGED unusedByApi

NextApi ==
    \/ api_GenerateProof
    \/ api_SaveToFiles
    \/ api_LoadFromFiles
    \/ api_NewProofQuery
    \/ api_ExecuteQuery

SpecApi == InitApi /\ [][NextApi]_vars

-----------------------------------------------------------------------------
(* part_003: main after GenerateProof                                      *)

unusedByCubicMain == <<prog, vcf, chromosomes, paddedChromosomes, genotype, claimedColor,
                       keys, witness, publicWitness, proof, satisfied, args, proofObj,
                       before, procs, dumpVars>>

\* main: ps.SaveToFiles("keys"); its error is printed as a warning and main
\* goes on
main_SaveToFiles ==
    /\ prog = "part_003"
    /\ pc = "generated"
    /\ \E failAt \in SaveSteps \cup {"none"} :
        LET r == SaveToFiles(ps, KeysDir, FileSystem(dirs, disk), failAt)
        IN  /\ dirs' = r.fs.dirs
            /\ disk' = r.fs.disk
            /\ calls' = Append(calls, Call("SaveToFiles", r.err))
            /\ IF r.err # Nil
               THEN Output("Warning: failed to save keys")
               ELSE UNCHANGED stdout
    /\ pc' = "NewProofQuery"
    /\ UNCHANGED <<exitCode, ps, pq, result>>
    /\ UNCHANGED unusedByCubicMain

\* main: query := ps.NewProofQuery(), the list of queries, the headline
main_NewProofQuery ==
    /\ prog = "part_003"
    /\ pc = "NewProofQuery"
    /\ pq' = NewProofQuery(ps)
    /\ result' = [query |-> "", value |-> None, err |-> Nil, done |-> 0]
    /\ Output("Proof System MVP Results:")
    /\ pc' = "queries"
    /\ UNCHANGED <<exitCode, calls, ps, dirs, disk>>
    /\ UNCHANGED unusedByCubicMain

\* main: one turn of the loop over the queries; a failed query is printed
\* and the loop goes on
main_ExecuteQuery ==
    /\ prog = "part_003"
    /\ pc = "queries"
    /\ result.done < Len(queries)
    /\ \E backendErr \in BackendErrs :
        LET query == queries[result.done + 1]
            r == ExecuteQuery(pq, ps.witness, query, backendErr)
        IN  /\ calls' = Append(calls, Call(query, r.err))
            /\ result' = [query |-> query, value |-> r.value, err |-> r.err,
                          done |-> result.done + 1]
            /\ IF r.err = Panicked
               THEN Panic
               ELSE /\ IF r.err # Nil
                       THEN Output("Query '" \o query \o "' failed")
                       ELSE Output(query \o ": " \o (IF query = "witness.private"
                                                      THEN r.value
                                                      ELSE ToString(r.value)))
                    /\ UNCHANGED <<pc, exitCode>>
    /\ UNCHANGED <<ps, dirs, disk, pq>>
    /\ UNCHANGED unusedByCubicMain

\* main: the last line, and the return from main
main_Success ==
    /\ prog = "part_003"
    /\ pc = "queries"
    /\ result.done = Len(queries)
    /\ Output("Success! Proof generated and verified.")
    /\ Exit(0)
    /\ UNCHANGED <<calls, ps, dirs, disk, pq, result>>
    /\ UNCHANGED unusedByCubicMain

NextCubicMain ==
    \/ NextProofSystem
    \/ main_SaveToFiles
    \/ main_NewProofQuery
    \/ main_ExecuteQuery
    \/ main_Success

SpecCubicMain == InitProofSystem /\ [][NextCubicMain]_vars

-----------------------------------------------------------------------------
(* part_003: two processes in SaveToFiles on one directory                 *)

Processes == {1, 2}

\* Each process has run NewProofSystem, so each holds the pair of its own Setup.
InitConcurrent ==
    /\ prog = "part_003 twice"
    /\ pc = "SaveToFiles"
    /\ exitCode = Running
    /\ stdout = <<>>
    /\ calls = <<>>
    /\ vcf = NoFile
    /\ witness = None
    /\ satisfied = FALSE
    /\ chromosomes = <<>> /\ paddedChromosomes = <<>>
    /\ genotype = Unset /\ claimedColor = Unset
    /\ keys = None /\ publicWitness = None /\ proof = None
    /\ args = NoArgs /\ proofObj = None
    /\ ps = None
    /\ dirs = {} /\ disk = NoDisk
    /\ pq = None /\ result = None /\ before = None
    /\ procs = [p \in Processes |-> [step |-> "MkdirAll", err |-> Nil, sys |-> SystemOf(p)]]
    /\ DumpUnused

unusedByConcurrent == <<prog, pc, exitCode, stdout, vcf, chromosomes, paddedChromosomes,
                        genotype, claimedColor, keys, witness, publicWitness, proof,
                        satisfied, args, proofObj, ps, pq, result, before, dumpVars>>

\* Process p makes the system call of its next step of SaveToFiles.
save_Step(p, step) ==
    /\ prog = "part_003 twice"
    /\ procs[p].step = step
    /\ \E err \in {Nil, "io"} :
        LET r == SaveToFiles_Step(step, procs[p].sys, KeysDir, FileSystem(dirs, disk), err)
        IN  /\ procs' = [procs EXCEPT ![p] = [@ EXCEPT !.step = r.next, !.err = r.err]]
            /\ dirs' = r.fs.dirs
            /\ disk' = r.fs.disk
            /\ calls' = Append(calls, [op |-> step, err |-> r.err, proc |-> p])
    /\ UNCHANGED unusedByConcurrent

save_MkdirAll == \E p \in Processes : save_Step(p, "MkdirAll")
save_CreatePk == \E p \in Processes : save_Step(p, "CreatePk")
save_WritePk == \E p \in Processes : save_Step(p, "WritePk")
save_CreateVk == \E p \in Processes : save_Step(p, "CreateVk")
save_WriteVk == \E p \in Processes : save_Step(p, "WriteVk")

NextConcurrent ==
    \/ save_MkdirAll
    \/ save_CreatePk
    \/ save_WritePk
    \/ save_CreateVk
    \/ save_WriteVk

SpecConcurrent == InitConcurrent /\ [][NextConcurrent]_vars

-----------------------------------------------------------------------------
(* CLAIMS                                                                  *)

Slot(w) == {w.Chromosome1, w.Chromosome2, w.Chromosome3, w.Chromosome4, w.Chromosome5}

SolvedCircuit(name) == prog = "solver" /\ pc = "solved" /\ witness.circuit = name

\* C1: the set-membership circuit is satisfied by an assignment exactly when
\* the target equals at least one of the five candidates.
C1_SatisfiedIffMember ==
    SolvedCircuit("ChromosomeCircuit") =>
        (satisfied <=> witness.TargetChromosome \in Slot(witness))

\* C1 witness: a solved assignment whose only matching candidate is the fifth.
C1_Witness ==
    /\ SolvedCircuit("ChromosomeCircuit")
    /\ satisfied = TRUE
    /\ witness.Chromosome5 = witness.TargetChromosome
    /\ witness.TargetChromosome \notin {witness.Chromosome1, witness.Chromosome2,
                                        witness.Chromosome3, witness.Chromosome4}

BackendFailed == \E i \in 1..Len(calls) : calls[i].err = "backend"

PipelineOrder == <<"Compile", "Setup", "NewWitness", "Public", "Prove", "Verify">>

\* C2: when the target is among the five padded candidates and no backend call
\* fails for reasons of its own, the run goes through compile, setup, witness
\* and prove, and the verification of the proof against the public target
\* succeeds: the program ends with exit code 0.
C2_PresentTargetVerifies ==
    (/\ prog \in ChromosomePrograms
     /\ pc = "exited"
     /\ paddedChromosomes # <<>>
     /\ targetChromosome \in Range(paddedChromosomes)
     /\ ~BackendFailed)
    => /\ exitCode = 0
       /\ [i \in 1..Len(calls) |-> calls[i].op] = PipelineOrder
       /\ \A i \in 1..Len(calls) : calls[i].err = Nil
       /\ proof # None
       /\ publicWitness.value = targetChromosome

\* C2 witness: part_005 ends verified with the target in the fifth slot only.
C2_Witness ==
    /\ prog = "part_005"
    /\ pc = "exited"
    /\ exitCode = 0
    /\ paddedChromosomes[5] = targetChromosome
    /\ \A i \in 1..4 : paddedChromosomes[i] # targetChromosome

\* C3: when the target is absent from the candidate values taken from the
\* source data, no proof is produced and the run does not end successfully.
C3_AbsentTargetNeverProved ==
    (/\ prog \in ChromosomePrograms
     /\ chromosomes # <<>>
     /\ targetChromosome \notin Range(chromosomes))
    => (proof = None /\ exitCode # 0)

\* C4: in part_005, when fewer than five candidates were extracted, the
\* remaining slots hold the padding 0, and the membership constraint is
\* satisfied (a proof is produced) only if the target is one of the extracted
\* candidates.
C4_PaddingNoFalsePositive ==
    (/\ prog = "part_005"
     /\ witness # None
     /\ Len(chromosomes) < Slots)
    => /\ \A i \in (Len(chromosomes) + 1)..Slots : paddedChromosomes[i] = 0
       /\ (Define(witness) \/ proof # None)
            => targetChromosome \in Range(chromosomes)

\* C4 witness: a proof was produced from a padded candidate set.
C4_Witness ==
    /\ prog = "part_005"
    /\ Len(chromosomes) < Slots
    /\ paddedChromosomes # <<>>
    /\ paddedChromosomes[Slots] = 0
    /\ proof # None

\* A label is an integer when, without its chr prefix, it is an optional sign
\* followed by at least one decimal digit.
IsIntegerLabel(label) ==
    LET s == IF Len(label) >= 3 /\ <<label[1], label[2], label[3]>> = <<"c", "h", "r">>
             THEN [i \in 1..(Len(label) - 3) |-> label[i + 3]]
             ELSE label
        d == IF s # <<>> /\ s[1] \in {"+", "-"} THEN Tail(s) ELSE s
    IN  d # <<>> /\ \A i \in 1..Len(d) : d[i] \in Range(Digits)

IntegerRecords(records) == SelectSeq(records, LAMBDA r : IsIntegerLabel(r.Chromosome))

Readable(file) == file.exists /\ file.header

\* C7: a record whose label is not an integer is skipped: the candidates are
\* exactly the records with integer labels, in order, one slot each; and on a
\* readable file the run ends before compilation, with exit code 1, exactly
\* when no record has an integer label.
C7_NonNumericSkipped ==
    (prog \in ChromosomePrograms /\ pc # "start" /\ Readable(vcf))
    => /\ Len(chromosomes) = Len(IntegerRecords(vcf.records))
       /\ \A i \in 1..Len(chromosomes) :
            chromosomes[i] =
                Atoi(TrimPrefix(IntegerRecords(vcf.records)[i].Chromosome, chr)).val
       /\ (pc = "exited" /\ calls = <<>>) <=> (IntegerRecords(vcf.records) = <<>>)
       /\ (IntegerRecords(vcf.records) = <<>>) => exitCode = 1

\* C7 witness: a record that is not an integer lies between two that are, and
\* the run has gone on to compile the circuit.
C7_Witness ==
    /\ prog = "part_005"
    /\ pc = "setup"
    /\ Len(vcf.records) = 3
    /\ ~IsIntegerLabel(vcf.records[2].Chromosome)
    /\ Len(chromosomes) = 2

\* The order of the backend calls of part_003: NewProofSystem, GenerateProof
ProofSystemOrder ==
    <<"Compile", "Setup", "NewWitness(PublicOnly)", "NewWitness", "Prove", "Verify">>

OrderOf(program) == IF program = "part_003" THEN ProofSystemOrder ELSE PipelineOrder

\* The run came out of the last step with success.
PipelineDone == exitCode = 0 \/ pc = "generated"

\* C10: the backend calls of one run are a prefix of compile, setup, witness,
\* public witness, prove, verify, each made once; a call is made only after
\* every earlier call succeeded; a failed call is the last one and ends the
\* process with exit code 1; the end of the pipeline is reached only through
\* all six calls, each successful.
C10_ForwardOnly ==
    prog \in ChromosomePrograms \cup {"part_003"} =>
        /\ Len(calls) <= Len(OrderOf(prog))
        /\ \A i \in 1..Len(calls) : calls[i].op = OrderOf(prog)[i]
        /\ \A i \in 1..(Len(calls) - 1) : calls[i].err = Nil
        /\ (\E i \in 1..Len(calls) : calls[i].err # Nil) => (pc = "exited" /\ exitCode = 1)
        /\ PipelineDone =>
              (Len(calls) = Len(OrderOf(prog)) /\ \A i \in 1..Len(calls) : calls[i].err = Nil)
        /\ pc = "exited" => exitCode \in {0, 1}
        /\ pc # "exited" => exitCode = Running

\* C10 witness: the run stopped at a failed Prove, after four successful steps.
C10_Witness ==
    /\ prog = "part_005"
    /\ pc = "exited"
    /\ Len(calls) = 5
    /\ calls[5].op = "Prove"
    /\ calls[5].err # Nil

\* C5: the mapping circuit is satisfied exactly when ClaimedColor = Genotype + 1;
\* for the genotype codes 0, 1, 2 that is exactly when ClaimedColor is
\* genotypeToColor(Genotype); genotype 1 is accepted with the claimed colour 2
\* and rejected with the claimed colour 3.
C5_MappingAgrees ==
    SolvedCircuit("EyeColorCircuit") =>
        /\ satisfied <=> (witness.ClaimedColor = witness.Genotype + 1)
        /\ witness.Genotype \in {0, 1, 2} =>
              (satisfied <=> (witness.ClaimedColor = genotypeToColor(witness.Genotype)))
        /\ (witness.Genotype = 1 /\ witness.ClaimedColor = 2) => satisfied
        /\ (witness.Genotype = 1 /\ witness.ClaimedColor = 3) => ~satisfied

\* C5 witness: genotype 1 with the claimed colour 2 has been solved and accepted.
C5_Witness ==
    /\ SolvedCircuit("EyeColorCircuit")
    /\ witness.Genotype = 1
    /\ witness.ClaimedColor = 2
    /\ satisfied = TRUE

HasVariant(records) == \E i \in 1..Len(records) : records[i].ID = "rs12913832"

FirstVariant(records) ==
    records[CHOOSE i \in 1..Len(records) :
                /\ records[i].ID = "rs12913832"
                /\ \A j \in 1..(i - 1) : records[j].ID # "rs12913832"]

ReadFailed == pc = "exited" /\ calls = <<>> /\ exitCode = 1

\* C6: on a readable file, the genotype is 0 for the call 0/0, 1 for 0/1 and
\* 1/0, 2 for 1/1 of the first record with ID rs12913832, and the program goes
\* on; for any other call, and when no record has that ID, the program stops
\* with the error; a run that goes on holds a genotype in {0, 1, 2}.
C6_GenotypeEncoding ==
    (prog = "eye_color" /\ pc # "start" /\ Readable(vcf))
    => /\ ~HasVariant(vcf.records) =>
            (ReadFailed /\ stdout[Len(stdout)] = "Error: rs12913832 not found in VCF")
       /\ HasVariant(vcf.records) =>
            LET gt == FirstVariant(vcf.records).Genotype
            IN  /\ gt = "0/0" => (genotype = 0 /\ ~ReadFailed)
                /\ gt \in {"0/1", "1/0"} => (genotype = 1 /\ ~ReadFailed)
                /\ gt = "1/1" => (genotype = 2 /\ ~ReadFailed)
                /\ gt \notin {"0/0", "0/1", "1/0", "1/1"} =>
                      (ReadFailed /\ stdout[Len(stdout)] = "Error: unknown genotype")
       /\ ~ReadFailed => genotype \in {0, 1, 2}

\* C6 witness: the record found carries the call 1/0, after a record with
\* another ID, and the program went on with genotype 1.
C6_Witness ==
    /\ prog = "eye_color"
    /\ pc = "compile"
    /\ Len(vcf.records) = 2
    /\ vcf.records[1].ID # "rs12913832"
    /\ vcf.records[2].Genotype = "1/0"
    /\ genotype = 1

ClosedSet == {chromosome, eyecolor, brca1, herc2}

Dispatching == prog = "cli" /\ args.command \in {"generate", "verify"}

ProofCalls == {i \in 1..Len(calls) : calls[i].op \in {"Generate", "Verify"}}

\* C8 as stated: for a proof-type identifier outside the closed set,
\* createProof returns the error and the command exits non-zero at dispatch,
\* before Generate or Verify is called and before any other work is done.
C8_UnknownTypeNoWork ==
    (Dispatching /\ args.type \notin ClosedSet /\ pc = "exited")
    => /\ createProof(args.type).err # Nil
       /\ exitCode # 0
       /\ ProofCalls = {}
       /\ calls = <<>>

\* C8 as amended: for an identifier whose lower-case form is outside the
\* closed set, createProof returns the unknown-proof-type error, no proof
\* value is ever held, Generate and Verify are never called, and the command
\* ends with exit code 1; the verify command makes no call at all before that,
\* the generate command only the os.MkdirAll of the output directory.
C8_UnknownTypeStopsAtDispatch ==
    (Dispatching /\ ToLower(args.type) \notin ClosedSet)
    => /\ createProof(args.type).err = "unknown proof type"
       /\ proofObj = None
       /\ pc \notin {"generate_call", "verify_call"}
       /\ ProofCalls = {}
       /\ pc = "exited" => exitCode = 1
       /\ args.command = "verify" => calls = <<>>
       /\ args.command = "generate" =>
              calls \in {<<>>, <<Call("MkdirAll", Nil)>>, <<Call("MkdirAll", "mkdir")>>}

\* C8 witness: generate with the identifier mtdna stopped at dispatch, after
\* the output directory was created.
C8_Witness ==
    /\ Dispatching
    /\ args.command = "generate"
    /\ args.type = <<"m", "t", "d", "n", "a">>
    /\ pc = "exited"
    /\ exitCode = 1
    /\ calls = <<Call("MkdirAll", Nil)>>
    /\ "output" \in dirs
    /\ stdout[Len(stdout)] = "Error: unknown proof type"

LastCall == calls[Len(calls)]

Returned(op) == calls # <<>> /\ LastCall.op = op

\* The assignment of the last GenerateProof, the proof groth16.Prove makes of
\* it under the proving key the system held, and whether that proof verifies
\* against the public-only witness under the verifying key the system held
LastAssignment == CubicAssignment(ps.witness[1], ps.witness[2])

FreshProof == ProofOf(before.pk, LastAssignment)

SelfCheckPasses == VerifyErr(FreshProof, before.vk, Public(LastAssignment), Nil) = Nil

\* C11: GenerateProof returns nil only if the proof it stored is the one just
\* generated and that proof verified against the public-only witness of the
\* same assignment under the verifying key of the system; when that proof does
\* not verify, GenerateProof returns an error, and the error of the failed
\* verification is returned only for a proof just generated.
C11_SelfChecked ==
    (prog = "ProofSystem" /\ Returned("GenerateProof")) =>
        /\ LastCall.err = Nil => (ps.proof = FreshProof /\ SelfCheckPasses)
        /\ LastCall.err = "failed to verify proof" => ps.proof = FreshProof
        /\ ~SelfCheckPasses => LastCall.err # Nil

\* C11 witness: the system held a proving key and a verifying key of two
\* different Setups, the proof was generated, and the self-check refused it.
C11_Witness ==
    /\ prog = "ProofSystem"
    /\ Returned("GenerateProof")
    /\ before.pk.pair # before.vk.pair
    /\ ps.proof = FreshProof
    /\ LastCall.err = "failed to verify proof"

-----------------------------------------------------------------------------
(* part_001: the demo that generates and verifies the chromosome proof     *)

\* The outcomes of Proof.Verify: verified, not verified, failed
VerifyOutcomes ==
    {[verified |-> TRUE, err |-> Nil], [verified |-> FALSE, err |-> Nil],
     [verified |-> FALSE, err |-> "verify"]}

InitDemo ==
    /\ prog = "part_001"
    /\ pc = "start"
    /\ exitCode = Running
    /\ stdout = <<"Starting VCF proof MVP...">>
    /\ calls = <<>>
    /\ vcf = NoFile
    /\ witness = None
    /\ satisfied = FALSE
    /\ DemoUnused
    /\ args = NoArgs
    /\ dirs \in {{}, {"output"}}
    /\ proofObj = ProofValue("ChromosomeProof")
    /\ StoreUnused
    /\ DumpUnused

\* main: os.MkdirAll(outputDir, 0755)
demo_MkdirAll ==
    /\ prog = "part_001"
    /\ pc = "start"
    /\ \E err \in {Nil, "mkdir"} :
        /\ calls' = Append(calls, Call("MkdirAll", err))
        /\ IF err # Nil
           THEN Output("Error creating output directory") /\ Exit(1) /\ UNCHANGED dirs
           ELSE /\ dirs' = dirs \cup {"output"}
                /\ pc' = "generate_call"
                /\ UNCHANGED <<stdout, exitCode>>
    /\ UNCHANGED <<args, proofObj>>
    /\ UNCHANGED unusedByCli

\* main: chromosomeProof.Generate(vcfPath, "", chromosomeProofPath)
demo_Generate ==
    /\ prog = "part_001"
    /\ pc = "generate_call"
    /\ IF CallPanics(proofObj)
       THEN Panic /\ UNCHANGED calls
       ELSE \E err \in {Nil, "generate"} :
            /\ calls' = Append(calls, Call("Generate", err))
            /\ IF err # Nil
               THEN Output("Error generating chromosome proof") /\ Exit(1)
               ELSE pc' = "verify_call" /\ UNCHANGED <<stdout, exitCode>>
    /\ UNCHANGED <<args, dirs, proofObj>>
    /\ UNCHANGED unusedByCli

\* main: chromosomeProof.Verify(chromosomeVkPath, chromosomeProofPath), the
\* report, and the return from main
demo_Verify ==
    /\ prog = "part_001"
    /\ pc = "verify_call"
    /\ IF CallPanics(proofObj)
       THEN Panic /\ UNCHANGED calls
       ELSE \E r \in VerifyOutcomes :
            /\ calls' = Append(calls, [op |-> "Verify", err |-> r.err,
                                       verified |-> r.verified])
            /\ IF r.err # Nil
               THEN Output("Error verifying chromosome proof") /\ Exit(1)
               ELSE IF r.verified
               THEN Output("Chromosome proof verified successfully!") /\ Exit(0)
               ELSE Output("Chromosome proof verification failed!") /\ Exit(0)
    /\ UNCHANGED <<args, dirs, proofObj>>
    /\ UNCHANGED unusedByCli

NextDemo ==
    \/ demo_MkdirAll
    \/ demo_Generate
    \/ demo_Verify

\* The programs that call Verify of a proof type: the CLI and the demo
InitEntryPoints == InitCli \/ InitDemo

NextEntryPoints == NextCli \/ NextDemo

SpecEntryPoints == InitEntryPoints /\ [][NextEntryPoints]_vars

\* A call of Verify that returned false and no error
RejectedProof == \E i \in 1..Len(calls) :
    calls[i].op = "Verify" /\ calls[i].err = Nil /\ ~calls[i].verified

\* C12: when Verify returns false and no error for a well-formed, invalid
\* proof, the entry point that called it reports the failed verification and
\* the process ends with a non-zero exit code.
C12_InvalidProofExitsNonZero ==
    (prog \in {"cli", "part_001"} /\ RejectedProof) =>
        /\ pc = "exited"
        /\ exitCode # 0
        /\ stdout[Len(stdout)] \in {"proof verification failed!",
                                    "Chromosome proof verification failed!"}

\* The steps whose failure is fatal: compilation, setup, witness, proving,
\* persistence
FatalSteps == {"Compile", "Setup", "NewWitness(PublicOnly)", "NewWitness", "Prove",
               "SaveToFiles"}

FatalStepFailed == \E i \in 1..Len(calls) : calls[i].op \in FatalSteps /\ calls[i].err # Nil

\* C13: in main of part_003, once a fatal step has failed the run does not go
\* on to the success message or to exit code 0.
C13_FatalStepEndsRun ==
    (prog = "part_003" /\ FatalStepFailed) =>
        /\ exitCode # 0
        /\ "Success! Proof generated and verified." \notin Range(stdout)

\* The last two method calls were SaveToFiles, which returned nil, and
\* LoadFromFiles, in which no system call failed for a reason of its own
SavedThenLoaded ==
    /\ prog = "ProofSystem"
    /\ Len(calls) >= 2
    /\ calls[Len(calls) - 1] = Call("SaveToFiles", Nil)
    /\ LastCall.op = "LoadFromFiles"
    /\ LastCall.failAt = "none"

\* C14: after SaveToFiles(dir) returned nil, a LoadFromFiles(dir) with no
\* other write to dir in between, and with no failing system call of its own,
\* returns nil and leaves the system with the proving key and the verifying
\* key it held when it saved them, whatever the files held before.
C14_KeyPairRoundTrip ==
    SavedThenLoaded =>
        /\ LastCall.err = Nil
        /\ ps.pk = before.pk
        /\ ps.vk = before.vk
        /\ ReadProvingKey(disk[ProvingKeyFile(KeysDir)]).key = ps.pk
        /\ ReadVerifyingKey(disk[VerifyingKeyFile(KeysDir)]).key = ps.vk

\* C14 witness: the keys of the first Setup were saved and loaded again.
C14_Witness ==
    /\ SavedThenLoaded
    /\ LastCall.err = Nil
    /\ ps.pk = SetupKeys("CubicCircuit").pk
    /\ ps.vk = SetupKeys("CubicCircuit").vk

-----------------------------------------------------------------------------
(* The verify command over the files that generate left                    *)

\* The proof bundle: the proof and the public part of the witness
ProofBundle(pk, w) == [kind |-> "ProofBundle", proof |-> ProofOf(pk, w), public |-> Public(w)]

\* An assignment of the chromosome circuit that satisfies it
GeneratedAssignment == ChromosomeWitness(padChromosomes(<<targetChromosome>>))

\* Proof.Generate(vcfPath, "", outputPath) after the n-th Setup: the bundle at
\* outputPath, the proving key at outputPath.pk, the verifying key at
\* outputPath.vk
Proof_Generate(outputPath, n) ==
    LET kp == SetupKeysOf("ChromosomeCircuit", n)
    IN  [name \in {outputPath, outputPath \o ".pk", outputPath \o ".vk"} |->
            IF name = outputPath THEN ProofBundle(kp.pk, GeneratedAssignment)
            ELSE IF name = outputPath \o ".pk" THEN ProvingKeyBytes(kp.pk)
            ELSE VerifyingKeyBytes(kp.vk)]

RemoveFile(d, name) == [n \in DOMAIN d \ {name} |-> d[n]]

OnlyFiles(d, names) == [n \in DOMAIN d \cap names |-> d[n]]

\* Proof.Verify(verifyingKeyPath, proofPath): loads the verifying key and the
\* bundle and runs the verifier; false, and no error, for an invalid proof
Proof_Verify(d, verifyingKeyPath, proofPath) ==
    IF verifyingKeyPath \notin DOMAIN d \/ proofPath \notin DOMAIN d
    THEN [verified |-> FALSE, err |-> "io"]
    ELSE LET vk == ReadVerifyingKey(d[verifyingKeyPath])
             bundle == d[proofPath]
         IN  IF vk.err # Nil \/ bundle.kind # "ProofBundle"
             THEN [verified |-> FALSE, err |-> "format"]
             ELSE IF vk.key.ccs # bundle.public.circuit
             THEN [verified |-> FALSE, err |-> "circuit shape"]
             ELSE [verified |-> VerifyErr(bundle.proof, vk.key, bundle.public, Nil) = Nil,
                   err |-> Nil]

\* The files before the verify command runs: what generate wrote at
\* my_proof.bin, then possibly a bundle of another Setup in its place, or the
\* verifying key gone or cut short; other.vk is the verifying key of another
\* Setup.
VerifyDisks ==
    LET generated == Proof_Generate("my_proof.bin", 1)
        other == Proof_Generate("my_proof.bin", 2)
        withOther(d) == WriteFile(d, "other.vk", other["my_proof.bin.vk"])
    IN  {withOther(generated),
         withOther(WriteFile(generated, "my_proof.bin", other["my_proof.bin"])),
         withOther(RemoveFile(generated, "my_proof.bin.vk")),
         withOther(WriteFile(generated, "my_proof.bin.vk", PartialFile))}

InitVerifyFiles ==
    /\ prog = "cli"
    /\ pc = "start"
    /\ exitCode = Running
    /\ stdout = <<>>
    /\ calls = <<>>
    /\ vcf = NoFile
    /\ witness = None
    /\ satisfied = FALSE
    /\ DemoUnused
    /\ args \in VerifyArgs
    /\ dirs = {}
    /\ proofObj = None
    /\ disk \in VerifyDisks
    /\ pq = None /\ result = None /\ before = None /\ procs = <<>>
    /\ DumpUnused

\* Another process deletes the proving key that generate wrote.
env_DeleteProvingKey ==
    /\ prog = "cli"
    /\ args.command = "verify"
    /\ pc # "exited"
    /\ "my_proof.bin.pk" \in DOMAIN disk
    /\ disk' = RemoveFile(disk, "my_proof.bin.pk")
    /\ UNCHANGED <<prog, pc, exitCode, stdout, calls, vcf, chromosomes, paddedChromosomes,
                   genotype, claimedColor, keys, witness, publicWitness, proof, satisfied,
                   args, dirs, proofObj, ps, pq, result, before, procs, dumpVars>>

\* handleVerify that hands Verify the path of the proving key
handleVerify_VerifyFiles_ProvingKeyPath ==
    /\ prog = "cli"
    /\ pc = "verify_call"
    /\ IF CallPanics(proofObj)
       THEN Panic /\ UNCHANGED calls
       ELSE LET r == Proof_Verify(disk, args.proof \o ".pk", args.proof)
            IN  /\ calls' = Append(calls, [op |-> "Verify", err |-> r.err,
                                           verified |-> r.verified])
                /\ IF r.err # Nil
                   THEN Output("Error verifying proof") /\ Exit(1)
                   ELSE IF r.verified
                   THEN Output("proof verified successfully!") /\ Exit(0)
                   ELSE Output("proof verification failed!") /\ Exit(1)
    /\ UNCHANGED <<args, dirs, proofObj>>
    /\ UNCHANGED unusedByCli

\* handleVerify: proof.Verify(verifyingKeyPath, proofPath) on the files, and
\* the report
handleVerify_VerifyFiles ==
    /\ prog = "cli"
    /\ pc = "verify_call"
    /\ IF CallPanics(proofObj)
       THEN Panic /\ UNCHANGED calls
       ELSE LET r == Proof_Verify(disk, args.verifyingKey, args.proof)
            IN  /\ calls' = Append(calls, [op |-> "Verify", err |-> r.err,
                                           verified |-> r.verified])
                /\ IF r.err # Nil
                   THEN Output("Error verifying proof") /\ Exit(1)
                   ELSE IF r.verified
                   THEN Output("proof verified successfully!") /\ Exit(0)
                   ELSE Output("proof verification failed!") /\ Exit(1)
    /\ UNCHANGED <<args, dirs, proofObj>>
    /\ UNCHANGED unusedByCli

NextVerifyFiles ==
    \/ cli_main
    \/ handleVerify_Flags
    \/ handleVerify_CreateProof
    \/ handleVerify_VerifyFiles
    \/ env_DeleteProvingKey

SpecVerifyFiles == InitVerifyFiles /\ [][NextVerifyFiles]_vars

C16_OversizedSetRejected ==
    (prog \in ChromosomePrograms /\ Len(chromosomes) > Slots) =>
        /\ paddedChromosomes = <<>>
        /\ exitCode # 0

\* The files hold keys and nothing else: the two key files of the directory,
\* each empty, cut short, or the bytes of a key of its kind.
OnlyKeysOnDisk ==
    /\ DOMAIN disk \subseteq {ProvingKeyFile(KeysDir), VerifyingKeyFile(KeysDir)}
    /\ ProvingKeyFile(KeysDir) \in DOMAIN disk =>
           disk[ProvingKeyFile(KeysDir)].kind \in {"empty", "partial", "ProvingKey"}
    /\ VerifyingKeyFile(KeysDir) \in DOMAIN disk =>
           disk[VerifyingKeyFile(KeysDir)].kind \in {"empty", "partial", "VerifyingKey"}

\* The private inputs another system with the same public value can have
OtherPrivateInputs == 0..(MaxApiValue + 1)

\* Every query answers the same whatever private input is recorded next to
\* the same public value.
QueriesIgnorePrivateInput ==
    (pq # None /\ ps.witness # <<>>) =>
        \A x \in OtherPrivateInputs, query \in Queries, backendErr \in BackendErrs :
            ExecuteQuery(pq, <<x, ps.witness[2]>>, query, backendErr)
                = ExecuteQuery(pq, ps.witness, query, backendErr)

\* The answer of the last query is one that a system with any other private
\* input and the same public value gives to the same query.
AnswerIgnoresPrivateInput ==
    (result # None /\ ps.witness # <<>>) =>
        \A x \in OtherPrivateInputs : \E backendErr \in BackendErrs :
            LET r == ExecuteQuery(pq, <<x, ps.witness[2]>>, result.query, backendErr)
            IN  r.err = result.err /\ (r.err = Nil => r.value = result.value)

\* The proof a successful GenerateProof stored is the one Prove makes, under
\* the same proving key, of any assignment with the same public value.
ProofIgnoresPrivateInput ==
    (Returned("GenerateProof") /\ LastCall.err = Nil) =>
        \A x \in OtherPrivateInputs :
            ps.proof = ProofOf(before.pk, CubicAssignment(x, ps.witness[2]))

\* C17: SaveToFiles writes the proving key and the verifying key and nothing
\* of the witness, and no query of ExecuteQuery returns a value that depends
\* on the private input x: a system with another x and the same public value
\* y gives the same answers.
C17_PrivateInputNotExposed ==
    prog = "ProofSystem" =>
        /\ OnlyKeysOnDisk
        /\ QueriesIgnorePrivateInput
        /\ AnswerIgnoresPrivateInput
        /\ ProofIgnoresPrivateInput

\* C17 witness: a proof was generated for x = 1, the keys were saved, and the
\* query witness.private was answered.
C17_Witness ==
    /\ prog = "ProofSystem"
    /\ calls = <<Call("GenerateProof", Nil), Call("SaveToFiles", Nil)>>
    /\ ps.witness[1] = 1
    /\ DOMAIN disk = {ProvingKeyFile(KeysDir), VerifyingKeyFile(KeysDir)}
    /\ result # None
    /\ result.query = "witness.private"
    /\ result.value = "hidden (private witness)"

\* C18: once GenerateProof has been called, the recorded witness values are
\* those of the proof the system stores: there is a stored proof, x and y
\* satisfy the circuit, and the public value of the proof is the recorded y,
\* so that proof.verify of a ProofQuery taken now checks the stored proof
\* against its own public value.
C18_WitnessOfStoredProof ==
    (prog = "ProofSystem" /\ ps.witness # <<>>) =>
        /\ ps.proof # None
        /\ Define(CubicAssignment(ps.witness[1], ps.witness[2]))
        /\ ps.proof.public = Public(CubicAssignment(ps.witness[1], ps.witness[2]))

\* C19: when LoadFromFiles returns an error, the system holds the proving key
\* and the verifying key it held before the call.
C19_FailedLoadKeepsKeys ==
    (prog = "ProofSystem" /\ Returned("LoadFromFiles") /\ LastCall.err # Nil) =>
        /\ ps.pk = before.pk
        /\ ps.vk = before.vk

\* Both processes have returned from SaveToFiles
BothReturned == \A p \in Processes : procs[p].step = "return"

\* The two key files are the complete bytes of the keys of one Setup
FilesOfOnePair ==
    /\ DOMAIN disk = {ProvingKeyFile(KeysDir), VerifyingKeyFile(KeysDir)}
    /\ \E p \in Processes :
        /\ disk[ProvingKeyFile(KeysDir)] = ProvingKeyBytes(procs[p].sys.pk)
        /\ disk[VerifyingKeyFile(KeysDir)] = VerifyingKeyBytes(procs[p].sys.vk)

\* Every system call of process first came before every system call of
\* process second
Serialized(first, second) ==
    \A i, j \in 1..Len(calls) :
        (calls[i].proc = first /\ calls[j].proc = second) => i < j

\* C20 as stated: when two processes have run SaveToFiles on the same
\* directory and both have returned nil, the two key files belong to the key
\* pair of one Setup, however their steps were interleaved.
C20_SamePairWhenInterleaved ==
    (prog = "part_003 twice" /\ BothReturned /\ \A p \in Processes : procs[p].err = Nil) =>
        FilesOfOnePair

\* C20 as amended: when the two processes ran SaveToFiles one after the
\* other and the later one returned nil, the two key files are the keys of
\* the later process, both from its Setup.
C20_SamePairWhenSerialized ==
    (prog = "part_003 twice" /\ BothReturned) =>
        \A first, second \in Processes :
            (first # second /\ Serialized(first, second) /\ procs[second].err = Nil) =>
                /\ DOMAIN disk = {ProvingKeyFile(KeysDir), VerifyingKeyFile(KeysDir)}
                /\ disk[ProvingKeyFile(KeysDir)] = ProvingKeyBytes(procs[second].sys.pk)
                /\ disk[VerifyingKeyFile(KeysDir)] = VerifyingKeyBytes(procs[second].sys.vk)

\* C20 witness: process 1 saved its keys, then process 2 saved its own over
\* them, and both returned nil.
C20_Witness ==
    /\ prog = "part_003 twice"
    /\ BothReturned
    /\ \A p \in Processes : procs[p].err = Nil
    /\ Serialized(1, 2)
    /\ disk[ProvingKeyFile(KeysDir)] = ProvingKeyBytes(SystemOf(2).pk)
    /\ disk[VerifyingKeyFile(KeysDir)] = VerifyingKeyBytes(SystemOf(2).vk)

-----------------------------------------------------------------------------
(* src/main.go: the variant dump                                           *)

\* The longest source of the dump: long enough for the loop to stop by its
\* counter and not by the end of the source
MaxVariants == 103

\* The number the counter of the loop is compared with
DumpLimit == 100

\* The variants of a source of n records, told apart by their position
Variants(n) == [i \in 1..n |-> [Chromosome |-> "1", Pos |-> i, Ref |-> "A", Alt |-> "[G]"]]

DumpFiles ==
    {File(FALSE, TRUE, <<>>), File(TRUE, FALSE, <<>>)}
    \cup {File(TRUE, TRUE, Variants(n)) : n \in 0..MaxVariants}

\* fmt.Printf("%s\t%d\t%s\t%v\n", Chromosome, Pos, Ref(), Alt())
DumpLine(variant) ==
    variant.Chromosome \o "\t" \o ToString(variant.Pos) \o "\t" \o variant.Ref
        \o "\t" \o variant.Alt

InitDump ==
    /\ prog = "main.go"
    /\ pc = "NewReader"
    /\ exitCode = Running
    /\ stdout = <<>>
    /\ calls = <<>>
    /\ vcf \in DumpFiles
    /\ witness = None
    /\ satisfied = FALSE
    /\ DemoUnused
    /\ args = NoArgs /\ dirs = {} /\ proofObj = None
    /\ StoreUnused
    /\ rdr = 0
    /\ dumpCount = 0

unusedByDump == <<prog, vcf, chromosomes, paddedChromosomes, genotype, claimedColor, keys,
                  witness, publicWitness, proof, satisfied, args, dirs, proofObj, ps,
                  storeVars>>

\* main: os.Open with its error dropped, vcfgo.NewReader, panic(err), count := 0
dump_NewReader ==
    /\ prog = "main.go"
    /\ pc = "NewReader"
    /\ LET err == IF vcf.exists /\ vcf.header THEN Nil ELSE "reader"
       IN  /\ calls' = Append(calls, Call("NewReader", err))
           /\ IF err # Nil
              THEN Exit(2) /\ UNCHANGED <<rdr, dumpCount>>
              ELSE pc' = "Read" /\ rdr' = 0 /\ dumpCount' = 0 /\ UNCHANGED exitCode
    /\ UNCHANGED stdout
    /\ UNCHANGED unusedByDump

\* main: one turn of the loop: rdr.Read(), the break at the end of the
\* source, the Printf, the break on count > 100, count++
dump_Read ==
    /\ prog = "main.go"
    /\ pc = "Read"
    /\ IF rdr = Len(vcf.records)
       THEN Exit(0) /\ UNCHANGED <<stdout, rdr, dumpCount>>
       ELSE /\ rdr' = rdr + 1
            /\ Output(DumpLine(vcf.records[rdr + 1]))
            /\ IF dumpCount > DumpLimit
               THEN Exit(0) /\ UNCHANGED dumpCount
               ELSE dumpCount' = dumpCount + 1 /\ UNCHANGED <<pc, exitCode>>
    /\ UNCHANGED calls
    /\ UNCHANGED unusedByDump

NextDump ==
    \/ dump_NewReader
    \/ dump_Read

SpecDump == InitDump /\ [][NextDump]_vars

\* The variant lines printed so far: main.go prints nothing else
VariantLines == Len(stdout)

\* C21: the dump loop prints at most 100 variant lines, whatever the length
\* of the source.
C21_AtMost100Lines ==
    prog = "main.go" => VariantLines <= 100

=============================================================================
